---- MODULE Spec2Model ----
(***************************************************************************)
(* Control plane of the mesh-router tunnel daemon.                         *)
(*                                                                         *)
(* Provider side: VPNManager (peer registration, key rotation) over the    *)
(* IP pool (IpManager) and the peer table (PeerMap).                       *)
(* Requester side: the supervisor (updateRequestersFromConfig,             *)
(* startRequester, stopRequester, the handshake watcher's restart          *)
(* callback) and the route refresh loops.                                  *)
(*                                                                         *)
(* Addresses of the overlay subnet S are written as their host number:     *)
(* host h of "a.b.c.0/len" is a.b.c.h.                                     *)
(***************************************************************************)
EXTENDS Bags, Integers, Sequences, FiniteSets, TLC

\* ------------------------------------------------------------------ bounds

\* Highest host number of the overlay subnet S (S = 0..MaxHost).
MaxHost == 3

\* Largest number of peers found in the configuration file at startup.
MaxPersisted == 1

\* ------------------------------------------------------- provider: values

\* Peer names (serverData.domainName); "$root$" is ROOT_DOMAIN.
Names == {"alice", "bob", "$root$"}

\* WireGuard public keys sent by requesters.
Keys == {"pkA", "pkB"}

\* The addresses of the configured range (VPNIpRange), by host number.
Subnet == 0 .. MaxHost

\* this.serverIp = ipRange with ".0/len" replaced by ".1"
serverIp == 1

\* zero = ipRange with ".0/len" replaced by ".0"
zero == 0

\* Absent entry of the peer table.
NoPeer == [publicKey |-> "none", ip |-> -1]

\* Peer records, without the meta.name that repeats the table's key.
PeerRecords == [publicKey : Keys, ip : Subnet]

\* No address: the value of a return that did not happen.
NoIp == -1

VARIABLES
  peerMap,     \* PeerMap: name -> Peer or NoPeer
  leasedIps,   \* IpManager: the set of leased addresses
  lastReg,     \* the registerPeer call of the last step: arguments, state before, steps, result
  persistedPeers  \* the peers of the configuration file the provider started on

provVars == <<peerMap, leasedIps, lastReg, persistedPeers>>

\* ------------------------------------------------- provider: IP pool (C1)

\* The provider state a call works on, with the steps it has taken and
\* whether it has thrown.
ProvState(pm, leased) == [peerMap |-> pm, leasedIps |-> leased, ops |-> <<>>, threw |-> FALSE, ret |-> NoIp]

Min(S) == CHOOSE x \in S : \A y \in S : x <= y

\* IpManager.leaseIp(ip): leases ip; an address already leased is refused.
leaseIp(st, ip) ==
  IF st.threw THEN st
  ELSE IF ip \in st.leasedIps THEN [st EXCEPT !.threw = TRUE]
  ELSE [st EXCEPT !.leasedIps = @ \cup {ip}, !.ops = Append(@, <<"lease", ip>>)]

\* releaseIp that records the release and keeps the lease.
releaseIp_KeepsLease(st, ip) ==
  IF st.threw THEN st
  ELSE [st EXCEPT !.ops = Append(@, <<"release", ip>>)]

\* IpManager.releaseIp(ip)
releaseIp(st, ip) ==
  IF st.threw THEN st
  ELSE [st EXCEPT !.leasedIps = @ \ {ip}, !.ops = Append(@, <<"release", ip>>)]

\* IpManager.getFreeIp(): the lowest unleased address of S, leased on return;
\* ExhaustedPool when none is left.
getFreeIp(st) ==
  IF st.threw THEN st
  ELSE LET free == Subnet \ st.leasedIps IN
       IF free = {} THEN [st EXCEPT !.threw = TRUE]
       ELSE [st EXCEPT !.leasedIps = @ \cup {Min(free)},
                       !.ops = Append(@, <<"allocate", Min(free)>>),
                       !.ret = Min(free)]

\* ---------------------------------------------- provider: peer table (C2)

\* PeerMap.has(name)
has(st, name) == st.peerMap[name] # NoPeer

\* PeerMap.get(name)
get(st, name) == st.peerMap[name]

\* PeerMap.add(name, peer)
add(st, name, peer) ==
  IF st.threw THEN st
  ELSE [st EXCEPT !.peerMap[name] = peer, !.ops = Append(@, <<"add", name>>)]

\* PeerMap.delete(name)
delete(st, name) ==
  IF st.threw THEN st
  ELSE [st EXCEPT !.peerMap[name] = NoPeer, !.ops = Append(@, <<"delete", name>>)]

\* PeerMap.getAll(): the names present
getAll(st) == {n \in Names : has(st, n)}

\* ------------------------------------------------- provider: VPNManager

\* removeWgPeer dropping the record without releasing its address.
removeWgPeer_NoRelease(st, name) ==
  IF ~has(st, name) THEN st
  ELSE delete(st, name)

\* VPNManager.removeWgPeer(name)
removeWgPeer(st, name) ==
  IF ~has(st, name) THEN st
  ELSE delete(releaseIp(st, get(st, name).ip), name)

\* setWgPeer without the same-key shortcut: every registration of a present
\* name rotates.
setWgPeer_AlwaysRotate(st, vpnPublicKey, name) ==
  LET removed == IF has(st, name) THEN removeWgPeer(st, name) ELSE st
      leased  == getFreeIp(removed)
  IN  add(leased, name, [publicKey |-> vpnPublicKey, ip |-> leased.ret])

\* setWgPeer allocating the new address before it removes the old record.
setWgPeer_AllocateFirst(st, vpnPublicKey, name) ==
  IF has(st, name) /\ get(st, name).publicKey = vpnPublicKey
  THEN [st EXCEPT !.ret = get(st, name).ip]
  ELSE LET leased  == getFreeIp(st)
           removed == IF has(leased, name) THEN removeWgPeer(leased, name) ELSE leased
       IN  add(removed, name, [publicKey |-> vpnPublicKey, ip |-> leased.ret])

\* setWgPeer entering the record in the table before it has an address.
setWgPeer_AddFirst(st, vpnPublicKey, name) ==
  IF has(st, name) /\ get(st, name).publicKey = vpnPublicKey
  THEN [st EXCEPT !.ret = get(st, name).ip]
  ELSE LET removed == IF has(st, name) THEN removeWgPeer(st, name) ELSE st
           entered == add(removed, name, [publicKey |-> vpnPublicKey, ip |-> NoIp])
           leased  == getFreeIp(entered)
       IN  add(leased, name, [publicKey |-> vpnPublicKey, ip |-> leased.ret])

\* VPNManager.setWgPeer(vpnPublicKey, meta) with no uniqueIp given:
\* st.ret is the address returned.
setWgPeer(st, vpnPublicKey, name) ==
  IF has(st, name) /\ get(st, name).publicKey = vpnPublicKey
  THEN [st EXCEPT !.ret = get(st, name).ip]
  ELSE LET removed == IF has(st, name) THEN removeWgPeer(st, name) ELSE st
           leased  == getFreeIp(removed)
       IN  add(leased, name, [publicKey |-> vpnPublicKey, ip |-> leased.ret])

\* The interface address of the response: `${uniqueIp}/32`.
Address(ip) == <<ip, 32>>

\* VPNManager.registerPeer(vpnPublicKey, name): the state after the call and
\* wgInterface.address of the result.
registerPeer(st, vpnPublicKey, name) ==
  LET after == setWgPeer(st, vpnPublicKey, name)
  IN  [st |-> after,
       address |-> IF after.threw THEN <<>> ELSE <<Address(after.ret)>>]

RECURSIVE leaseAll(_, _)
\* setup's loop over peerMap.getAll(): leaseIp(peer.ip) for every peer.
leaseAll(st, names) ==
  IF names = {} THEN st
  ELSE LET n == CHOOSE x \in names : TRUE
       IN  leaseAll(leaseIp(st, st.peerMap[n].ip), names \ {n})

\* setup that leases the persisted peers' addresses but reserves neither .1
\* nor .0.
setup_NoReserve(persisted) ==
  LET fresh  == ProvState([n \in Names |-> NoPeer], {})
      loaded == [fresh EXCEPT !.peerMap = persisted]
  IN  leaseAll(loaded, getAll(loaded))

\* setup that reserves the provider's own address but not the network
\* address.
setup_ReserveServerOnly(persisted) ==
  LET fresh    == ProvState([n \in Names |-> NoPeer], {})
      reserved == leaseIp(fresh, serverIp)
      loaded   == [reserved EXCEPT !.peerMap = persisted]
  IN  leaseAll(loaded, getAll(loaded))

\* setup that loads the persisted peers and leases none of their addresses.
setup_NoPersistedLease(persisted) ==
  LET fresh    == ProvState([n \in Names |-> NoPeer], {})
      reserved == leaseIp(leaseIp(fresh, serverIp), zero)
  IN  [reserved EXCEPT !.peerMap = persisted]

\* VPNManager.setup(config) on a configuration file holding `persisted`.
setup(persisted) ==
  LET fresh    == ProvState([n \in Names |-> NoPeer], {})
      reserved == leaseIp(leaseIp(fresh, serverIp), zero)
      loaded   == [reserved EXCEPT !.peerMap = persisted]
  IN  leaseAll(loaded, getAll(loaded))

\* The peer tables a configuration file written by the provider can hold at
\* startup: at most MaxPersisted peers, their addresses distinct
\* allocatable addresses of S and their keys distinct.
PersistedConfigs ==
  {pm \in [Names -> PeerRecords \cup {NoPeer}] :
     LET present == {n \in Names : pm[n] # NoPeer} IN
       /\ Cardinality(present) <= MaxPersisted
       /\ \A n \in present : pm[n].ip \notin {serverIp, zero}
       /\ \A n, m \in present : n # m => pm[n].ip # pm[m].ip /\ pm[n].publicKey # pm[m].publicKey}

NoCall == [called |-> FALSE, name |-> "none", pk |-> "none",
           pre |-> [peerMap |-> [n \in Names |-> NoPeer], leasedIps |-> {}],
           ops |-> <<>>, threw |-> FALSE, address |-> <<>>]

InitProvider ==
  \E persisted \in PersistedConfigs :
    LET st == setup(persisted) IN
      /\ ~st.threw
      /\ peerMap = st.peerMap
      /\ leasedIps = st.leasedIps
      /\ lastReg = NoCall
      /\ persistedPeers = persisted

\* A registerPeer(pk, name) call on the running provider.
RegisterPeer(pk, name) ==
  LET r == registerPeer(ProvState(peerMap, leasedIps), pk, name) IN
    /\ peerMap' = r.st.peerMap
    /\ leasedIps' = r.st.leasedIps
    /\ lastReg' = [called |-> TRUE, name |-> name, pk |-> pk,
                   pre |-> [peerMap |-> peerMap, leasedIps |-> leasedIps],
                   ops |-> r.st.ops, threw |-> r.st.threw, address |-> r.address]
    /\ UNCHANGED persistedPeers

NextProvider == \E pk \in Keys, name \in Names : RegisterPeer(pk, name)

\* ------------------------------------------------- provider: ApiServer

\* Text that the code takes apart is written as its sequence of characters.
\* The spelling of the peer names.
Chars(name) ==
  CASE name = "alice" -> <<"a", "l", "i", "c", "e">>
    [] name = "bob" -> <<"b", "o", "b">>
    [] name = "$root$" -> <<"$", "r", "o", "o", "t", "$">>

\* const ROOT_DOMAIN = "$root$"
ROOT_DOMAIN == "$root$"

\* PROVIDER_ANNONCE_DOMAIN, and the serverDomain of an auth answer.
Domains == {<<"e", "x", "a", "m", "p", "l", "e", ".", "c", "o", "m">>,
            <<"m", "y", "-", "s", "i", "t", "e", ".", "c", "o", "m">>}

\* registerSendDTO.userId: the empty string is falsy.
UserIds == {"alice", "bob", ""}

\* What GET <authApiUrl>/<userId>/<authToken> comes back with: a rejection
\* (axios throws on it) or a record whose fields can be missing.
\* A serverDomain that is missing or empty: falsy.
NoDomain == <<>>

\* A domainName that is missing or empty: falsy.
NoName == ""

AuthAnswers ==
  {[rejected |-> TRUE, serverDomain |-> NoDomain, domainName |-> NoName]}
  \cup [rejected : {FALSE}, serverDomain : Domains \cup {NoDomain}, domainName : Names \cup {NoName}]

\* The answer of no call: authApiUrl is not configured.
NoAuthCall == [rejected |-> FALSE, serverDomain |-> NoDomain, domainName |-> NoName]

VARIABLES
  authApiUrl,       \* ApiServerConfig.authApiUrl is configured
  announcedDomain,  \* ApiServerConfig.announcedDomain
  lastPost,         \* the last request, if a POST /api/register: request, auth answer, response
  lastGet,          \* the last request, if a GET /api/get_ip/:host: host, response
  handlers          \* the POST /api/register handlers waiting for the auth backend

apiVars == <<authApiUrl, announcedDomain, lastPost, lastGet, handlers>>

\* The domain with the name in front of it whatever the name.
domainOf_AlwaysPrefixed(domainName, serverDomain) ==
  Chars(domainName) \o <<".">> \o serverDomain

\* `${serverData.domainName}.${serverData.serverDomain}`, or serverDomain alone
\* for ROOT_DOMAIN.
domainOf(domainName, serverDomain) ==
  IF domainName = ROOT_DOMAIN THEN serverDomain
  ELSE Chars(domainName) \o <<".">> \o serverDomain

\* serverData of ApiServer.registerPeer: the auth answer when authApiUrl is
\* configured, {announcedDomain, userId || ROOT_DOMAIN} otherwise.
serverDataOf(auth, announced, userId, answer) ==
  IF auth THEN [serverDomain |-> answer.serverDomain, domainName |-> answer.domainName]
  ELSE [serverDomain |-> announced,
        domainName |-> IF userId = "" THEN ROOT_DOMAIN ELSE userId]

NoResult == [domain |-> <<>>, domainName |-> NoName, serverDomain |-> NoDomain, address |-> <<>>]

\* ApiServer.registerPeer(data): the provider state after the call, whether
\* it threw, and the registerRecvDTO it returned.
apiRegisterPeer(st, auth, announced, userId, vpnPublicKey, answer) ==
  LET serverData == serverDataOf(auth, announced, userId, answer) IN
  IF auth /\ answer.rejected
  THEN [st |-> st, threw |-> TRUE, vpnCalled |-> FALSE, result |-> NoResult]
  ELSE IF serverData.serverDomain = NoDomain \/ serverData.domainName = NoName
  THEN [st |-> st, threw |-> TRUE, vpnCalled |-> FALSE, result |-> NoResult]
  ELSE LET r == registerPeer(st, vpnPublicKey, serverData.domainName) IN
       IF r.st.threw
       THEN [st |-> r.st, threw |-> TRUE, vpnCalled |-> TRUE, result |-> NoResult]
       ELSE [st |-> r.st, threw |-> FALSE, vpnCalled |-> TRUE,
             result |-> [domain |-> domainOf(serverData.domainName, serverData.serverDomain),
                         domainName |-> serverData.domainName,
                         serverDomain |-> serverData.serverDomain,
                         address |-> r.address]]

\* app.post('/api/register'): res.send(ret), or 500 'Internal error' when
\* registerPeer threw.
postRegister(st, auth, announced, userId, vpnPublicKey, answer) ==
  LET r == apiRegisterPeer(st, auth, announced, userId, vpnPublicKey, answer) IN
  [st |-> r.st, vpnCalled |-> r.vpnCalled,
   status |-> IF r.threw THEN 500 ELSE 200,
   body |-> IF r.threw THEN "Internal error" ELSE "registerRecvDTO",
   result |-> r.result]

\* String.prototype.replaceAll(from, to) for single characters
replaceAll(s, from, to) == [i \in 1 .. Len(s) |-> IF s[i] = from THEN to ELSE s[i]]

\* String.prototype.endsWith(suffix)
endsWith(s, suffix) ==
  /\ Len(suffix) <= Len(s)
  /\ SubSeq(s, Len(s) - Len(suffix) + 1, Len(s)) = suffix

\* s.slice(0, -k) for k > 0
sliceOff(s, k) == IF k >= Len(s) THEN <<>> ELSE SubSeq(s, 1, Len(s) - k)

\* s.split('.').pop(): what follows the last dot of s
lastLabel(s) ==
  LET dots == {i \in 1 .. Len(s) : s[i] = "."}
  IN  IF dots = {} THEN s
      ELSE SubSeq(s, (CHOOSE i \in dots : \A j \in dots : j <= i) + 1, Len(s))

\* VPNManager.getIpFromName(name) for a name given by its characters: the
\* address of the peer stored under that name, NoIp (null) when there is none.
getIpFromName(pm, chars) ==
  LET named == {n \in Names : Chars(n) = chars /\ pm[n] # NoPeer}
  IN  IF named = {} THEN NoIp ELSE pm[CHOOSE n \in named : TRUE].ip

\* `http://${ip}:80`
urlOf(ip) == <<"http://", ip, ":80">>

\* app.get('/api/get_ip/:host')
getIp(pm, announced, param) ==
  LET host == replaceAll(param, "-", ".") IN
  IF ~endsWith(host, announced)
  THEN [status |-> 404, body |-> <<"Invalid domain">>]
  ELSE LET subdomain == sliceOff(host, Len(announced) + 1)
           name == IF subdomain = <<>> THEN <<>> ELSE lastLabel(subdomain)
       IN  IF name = <<>>
           THEN LET rootIp == getIpFromName(pm, Chars(ROOT_DOMAIN)) IN
                IF rootIp # NoIp THEN [status |-> 200, body |-> urlOf(rootIp)]
                ELSE [status |-> 404, body |-> <<"Name not found">>]
           ELSE LET ip == getIpFromName(pm, name) IN
                IF ip = NoIp THEN [status |-> 404, body |-> <<"IP not found">>]
                ELSE [status |-> 200, body |-> urlOf(ip)]

\* d with its dots replaced by dashes, as the caller escapes it.
escaped(d) == replaceAll(d, ".", "-")

\* The hosts asked for: <name>-<domain> and the bare domain for every name
\* and domain, and hosts that are not of this form.
Hosts ==
  {Chars(n) \o <<"-">> \o escaped(d) : n \in Names, d \in Domains}
  \cup {escaped(d) : d \in Domains}
  \cup {<<"b", "o", "b", "x", "e", "x", "a", "m", "p", "l", "e", "-", "c", "o", "m">>,
        <<"n", "o", "t", "e", "x", "a", "m", "p", "l", "e", "-", "c", "o", "m">>,
        <<"f", "o", "o", "-", "o", "t", "h", "e", "r", "-", "c", "o", "m">>,
        <<"c", "a", "r", "o", "l", "-", "e", "x", "a", "m", "p", "l", "e", "-", "c", "o", "m">>,
        <<"w", "w", "w", "-", "a", "l", "i", "c", "e", "-", "e", "x", "a", "m", "p", "l", "e", "-", "c", "o", "m">>}

\* ------------------------------------------------------ requester: values

\* Longest providers list of a configuration.
MaxCfgLen == 2

\* Provider connection strings "<url>,<userId>,<signature>", as the pieces
\* split(',') cuts them into.
Providers == {<<"http://p1", "alice", "sigA">>, <<"https://p2", "bob", "sigB">>}

\* Connection strings that lack a piece, or whose URL has another scheme:
\* "http://p1,alice", "http://p1,,sigA", ",alice,sigA", "ftp://p3,alice,sigA".
Malformed ==
  {<<"http://p1", "alice">>, <<"http://p1", "", "sigA">>,
   <<"", "alice", "sigA">>, <<"ftp://p3", "alice", "sigA">>}

\* The connection strings of the configurations that hold malformed ones.
ProviderStrings == {<<"http://p1", "alice", "sigA">>} \cup Malformed

\* The i-th name of a destructuring of providerString.split(',') with ''
\* as the default: a piece that is not there is undefined, and defaulted.
field(p, i) == IF i <= Len(p) THEN p[i] ELSE ""

\* const [providerURL] = providerString.split(',')
providerURL(p) == p[1]

Urls == {providerURL(p) : p \in Providers \cup ProviderStrings}

\* String.prototype.startsWith
startsWith(s, prefix) == Len(s) >= Len(prefix) /\ SubSeq(s, 1, Len(prefix)) = prefix

\* What parseProvider ends with when it throws.
ParseError == [threw |-> TRUE, backendUrl |-> "", userId |-> "", signature |-> ""]

\* parseProvider(providerString), on the pieces split(',') cuts the string
\* into: the ProviderConfig it returns, or that it throws.
parseProvider(p) ==
  LET url == field(p, 1)
      uid == field(p, 2)
      sig == field(p, 3)
  IN  IF url = "" \/ uid = "" \/ sig = "" THEN ParseError
      ELSE IF ~startsWith(url, "http") THEN ParseError
      ELSE [threw |-> FALSE, backendUrl |-> url, userId |-> uid, signature |-> sig]

\* The positions of the separator in a text.
positions(text, sep) == {i \in 1 .. Len(text) : SubSeq(text, i, i) = sep}

\* The pieces keep the separator that ends them.
split_KeepsSeparator(text, sep) ==
  LET RECURSIVE cut(_)
      cut(s) == IF positions(s, sep) = {} THEN <<s>>
                ELSE LET i == Min(positions(s, sep))
                     IN  <<SubSeq(s, 1, i)>> \o cut(SubSeq(s, i + 1, Len(s)))
  IN  cut(text)

\* String.prototype.split with a one-character separator.
split(text, sep) ==
  LET RECURSIVE cut(_)
      cut(s) == IF positions(s, sep) = {} THEN <<s>>
                ELSE LET i == Min(positions(s, sep))
                     IN  <<SubSeq(s, 1, i - 1)>> \o cut(SubSeq(s, i + 1, Len(s)))
  IN  cut(text)

\* The connection string of three fields: b + "," + u + "," + s
serialize(b, u, s) == b \o "," \o u \o "," \o s

\* The texts the fields of a connection string are drawn from.
BackendTexts == {"http://p1", "https://p2", "http://h/a,b", "httpx", "ftp://p3", ""}

UserTexts == {"alice", "bob", "a,b", ""}

SignatureTexts == {"sigA", "sig,B", ",", ""}

\* Config.providers over the provider strings P: the strings of a
\* configuration in file order (a string may be listed twice).
Configs(P) == UNION {[1 .. n -> P] : n \in 0 .. MaxCfgLen}

\* The configurations that list no provider string twice.
DistinctConfigs(P) == {c \in Configs(P) : \A i, j \in DOMAIN c : c[i] = c[j] => i = j}

\* The calls (reconcile passes, restart callbacks) that can be in progress at
\* once: two, so that every pair of them can overlap.
TaskIds == {1, 2}

\* process.exit(51)
EXIT_START_FAILED == 51

\* What the registration POST can come back with: the register response, a
\* failed curl, a body that is not JSON, JSON that is no register response.
RegisterResponses == {"ok", "curlError", "notJson", "errorJson"}

\* What the POST of registerTunnelRoute can come back with: a body without
\* an error field, a body with one, a failed curl, a body that is not JSON.
RouteAnswers == {"registered", "errorJson", "curlError", "notJson"}

\* RouteRegistrationResult.success of registerTunnelRoute.
RouteResults == {"success", "failure"}

\* The endpoints of the provider a start sends requests to.
Endpoints == {"/api/ping", "/router/api/version", "/api/register"}

NoProvider == <<>>

SeqToSet(q) == {q[i] : i \in 1 .. Len(q)}

Remove(q, e) == SelectSeq(q, LAMBDA x : x # e)

VARIABLES
  currentConfig,    \* currentConfig.providers
  activeProviders,  \* the Set activeProviders, in insertion order
  refreshIntervals, \* the providers with a route refresh interval
  watched,          \* HandshakesWatcher: the providers registered
  watching,         \* HandshakesWatcher: polling
  iface,            \* per provider URL: the tunnel interface, "up" or "down"
  confFile,         \* per provider URL: the tunnel config file exists
  exitCode,         \* 0 while the process runs
  tasks             \* the async calls in progress

reqVars == <<currentConfig, activeProviders, refreshIntervals, watched, watching,
             iface, confFile, exitCode, tasks>>

\* A slot with no call in progress.
IdleTask ==
  [kind |-> "idle", pc |-> "idle", cfg |-> <<>>, idx |-> 0, visited |-> {},
   cur |-> NoProvider, trigger |-> NoProvider, reg |-> "none", failed |-> "none",
   route |-> "none", asked |-> {}, log |-> <<>>]

\* The requester's state as one value, for the synchronous stretches of code
\* that run between two awaits.
ReqState ==
  [currentConfig |-> currentConfig, active |-> activeProviders,
   refresh |-> refreshIntervals, watched |-> watched, watching |-> watching,
   iface |-> iface, confFile |-> confFile, exitCode |-> exitCode, tasks |-> tasks]

SetReq(X) ==
  /\ currentConfig' = X.currentConfig
  /\ activeProviders' = X.active
  /\ refreshIntervals' = X.refresh
  /\ watched' = X.watched
  /\ watching' = X.watching
  /\ iface' = X.iface
  /\ confFile' = X.confFile
  /\ exitCode' = X.exitCode
  /\ tasks' = X.tasks

VARIABLES
  parsed   \* a parseProvider call: the fields, the string made of them, the result

parseVars == <<parsed>>

VARIABLES
  boot     \* the provider's startup: the configuration file, the server keys, how far setup is

setupVars == <<boot>>

\* The route registrar's state.
VARIABLES
  backendUrl,       \* config.BACKEND_URL is configured
  healthCheckPath,  \* config.HEALTH_CHECK_PATH
  intervals,        \* the Map refreshIntervals: per connection string, the
                    \* port and ip its interval's callback was created with
  timers,           \* the setInterval timers that have not been cleared, as a bag
  lastRoute         \* the registerTunnelRoute call of the last step

routeVars == <<backendUrl, healthCheckPath, intervals, timers, lastRoute>>

\* ------------------------------------------- requester: ProviderTools

\* Largest retry bound waitForProvider is called with.
MaxRetries == 3

\* Most failed probes followed when there is no retry bound.
MaxProbes == 5

\* The whitespace String.prototype.trim() removes.
Whitespace == {" ", "\n", "\t", "\r"}

RECURSIVE trimStart(_)
trimStart(s) == IF s # <<>> /\ Head(s) \in Whitespace THEN trimStart(Tail(s)) ELSE s

RECURSIVE trimEnd(_)
trimEnd(s) ==
  IF s # <<>> /\ s[Len(s)] \in Whitespace THEN trimEnd(SubSeq(s, 1, Len(s) - 1)) ELSE s

\* String.prototype.trim()
trim(s) == trimEnd(trimStart(s))

\* What `curl -s -k --max-time 30 <providerURL>/api/ping` ends with: an
\* error of the command, or its stdout.
CurlError == <<"error">>

PingOutcomes ==
  {CurlError,
   <<"o", "k">>,
   <<"o", "k", "\n">>,
   <<"O", "K">>,
   <<"o", "k", "a", "y">>,
   <<>>}

\* checkProviderAvailability accepting whatever the command prints.
checkProviderAvailability_AnyOutput(outcome) == outcome # CurlError

\* checkProviderAvailability(providerURL), given what the curl command ends
\* with: stdout.trim() === 'ok', false on an error.
checkProviderAvailability(outcome) ==
  IF outcome = CurlError THEN FALSE ELSE trim(outcome) = <<"o", "k">>

VARIABLES
  wait   \* a waitForProvider call: maxRetries, retries, where it is, the last probe

waitVars == <<wait>>

\* The condition of waitForProvider's while loop.
mayProbe(maxRetries, retries) == maxRetries < 0 \/ retries < maxRetries

\* waitForProvider(providerURL, retryIntervalSeconds, maxRetries) is called
\* and runs up to its first await; startRequester passes no maxRetries, which
\* makes it -1.
InitWait ==
  \E maxRetries \in -1 .. MaxRetries :
    wait = [maxRetries |-> maxRetries, retries |-> 0, last |-> <<"none">>,
            pc |-> IF mayProbe(maxRetries, 0) THEN "probing" ELSE "thrown"]

\* No waitForProvider call.
IdleWait == wait = [maxRetries |-> -1, retries |-> 0, last |-> <<"none">>, pc |-> "none"]

\* await checkProviderAvailability(providerURL) has ended: the call returns,
\* or counts the retry and sleeps for the retry interval.
WaitProbe(outcome) ==
  /\ wait.pc = "probing"
  /\ wait.retries < MaxProbes
  /\ wait' = IF checkProviderAvailability(outcome)
             THEN [wait EXCEPT !.pc = "returned", !.last = outcome]
             ELSE [wait EXCEPT !.pc = "sleeping", !.last = outcome, !.retries = @ + 1]
  /\ UNCHANGED <<provVars, apiVars, reqVars, routeVars, parseVars, setupVars>>

\* The retry interval has passed: the next probe, or the throw that ends
\* the loop.
WaitSleep ==
  /\ wait.pc = "sleeping"
  /\ wait' = [wait EXCEPT !.pc = IF mayProbe(wait.maxRetries, wait.retries)
                                 THEN "probing" ELSE "thrown"]
  /\ UNCHANGED <<provVars, apiVars, reqVars, routeVars, parseVars, setupVars>>

NextWait ==
  \/ \E outcome \in PingOutcomes : WaitProbe(outcome)
  \/ WaitSleep

\* ------------------------------------------- requester: RouteRegistrar

\* config.ROUTE_PRIORITY (its default)
ROUTE_PRIORITY == 2

\* result.routePort and result.routeIp of a register response.
RoutePorts == {443, 8443}

RouteIps == {"192.168.1.5", "10.0.0.1"}

\* config.HEALTH_CHECK_PATH: '' when not configured.
HealthCheckPaths == {"", "/health"}

\* The connection strings routes are announced for.
RouteStrings == Providers \cup {<<"http://p1", "alice">>}

\* What the routing backend makes of the POST: an HTTP status with a body
\* (JSON without an error field, JSON with one, not JSON), or no answer at
\* all, which fails the curl command.
RouteStatuses == {200, 404, 500}

NoAnswer == [status |-> 0, body |-> "curlError"]

BackendAnswers ==
  {NoAnswer} \cup [status : RouteStatuses, body : {"registered", "errorJson", "notJson"}]

\* What `curl -s -X POST ...` followed by JSON.parse(stdout) hands to
\* registerTunnelRoute: the body, whatever the status, or the failed command.
curlPost(answer) == answer.body

\* The Route of registerTunnelRoute.
Route(ip, port, path) ==
  IF path = ""
  THEN [ip |-> ip, port |-> port, priority |-> ROUTE_PRIORITY]
  ELSE [ip |-> ip, port |-> port, priority |-> ROUTE_PRIORITY,
        healthCheck |-> [path |-> path]]

\* The POST of registerTunnelRoute: its URL's userid and sig, and the routes
\* of its body.
routePost(p, port, ip, path) ==
  [userId |-> field(p, 2), signature |-> field(p, 3),
   routes |-> <<Route(ip, port, path)>>]

NotSent == [userId |-> "", signature |-> "", routes |-> <<>>]

\* The RouteRegistrationResult of registerTunnelRoute, given whether
\* BACKEND_URL is configured and what the POST came back with. `error` is ""
\* where the result has no error field; the error of a failed request is the
\* message of what failed, the command or JSON.parse.
routeResult(backend, p, seen) ==
  IF ~backend
  THEN [sent |-> FALSE, success |-> TRUE,
        message |-> "Route registration skipped (no BACKEND_URL)", error |-> ""]
  ELSE IF field(p, 2) = "" \/ field(p, 3) = ""
  THEN [sent |-> FALSE, success |-> FALSE, message |-> "Route registration failed",
        error |-> "Missing userId or signature in provider string"]
  ELSE IF seen = "curlError"
  THEN [sent |-> TRUE, success |-> FALSE, message |-> "Route registration request failed",
        error |-> "Command failed"]
  ELSE IF seen = "notJson"
  THEN [sent |-> TRUE, success |-> FALSE, message |-> "Route registration request failed",
        error |-> "Unexpected token"]
  ELSE IF seen = "errorJson"
  THEN [sent |-> TRUE, success |-> FALSE, message |-> "Route registration failed",
        error |-> "response.error"]
  ELSE [sent |-> TRUE, success |-> TRUE, message |-> "Route registered successfully",
        error |-> ""]

NoIntervals == [p \in {} |-> <<>>]

NoRoute ==
  [called |-> FALSE, by |-> "none", p |-> NoProvider, port |-> 0, ip |-> "",
   answer |-> NoAnswer, post |-> NotSent,
   result |-> [sent |-> FALSE, success |-> FALSE, message |-> "", error |-> ""]]

\* refreshIntervals.delete(providerString) after clearInterval
clearLoop(iv, p) == [q \in DOMAIN iv \ {p} |-> iv[q]]

\* refreshIntervals.set(providerString, interval)
setLoop(iv, p, port, ip) ==
  [q \in DOMAIN iv \cup {p} |-> IF q = p THEN <<port, ip>> ELSE iv[q]]

\* startRouteRefreshLoop(providerString, tunnelPort, routeIp) on the Map.
startRefresh(backend, iv, p, port, ip) ==
  LET stopped == clearLoop(iv, p)
  IN  IF ~backend THEN stopped ELSE setLoop(stopped, p, port, ip)

\* The timer a Map entry stands for: its callback's closure.
handle(iv, p) == <<p, iv[p][1], iv[p][2]>>

\* setInterval(callback, refreshInterval)
setInterval(tm, p, port, ip) == tm (+) SetToBag({<<p, port, ip>>})

\* clearInterval(interval)
clearInterval(tm, h) == tm (-) SetToBag({h})

\* stopRouteRefreshLoop(providerString) on the timers.
stopTimers(iv, tm, p) ==
  IF p \in DOMAIN iv THEN clearInterval(tm, handle(iv, p)) ELSE tm

\* startRouteRefreshLoop that sets the new interval without stopping the
\* loop there is.
startTimers_NoCancel(backend, iv, tm, p, port, ip) ==
  IF ~backend THEN tm ELSE setInterval(tm, p, port, ip)

\* startRouteRefreshLoop(providerString, tunnelPort, routeIp) on the timers.
startTimers(backend, iv, tm, p, port, ip) ==
  LET stopped == stopTimers(iv, tm, p)
  IN  IF ~backend THEN stopped ELSE setInterval(stopped, p, port, ip)

RECURSIVE stopAllTimers(_, _, _)
\* stopAllRouteRefreshLoops: clearInterval for every entry of the Map.
stopAllTimers(iv, tm, todo) ==
  IF todo = {} THEN tm
  ELSE LET p == CHOOSE q \in todo : TRUE
       IN  stopAllTimers(iv, clearInterval(tm, handle(iv, p)), todo \ {p})

\* A refresh whose registration failed cancels its interval.
refreshCallback_CancelsOnFailure(iv, p, result) ==
  IF result.success THEN iv ELSE clearLoop(iv, p)

\* The interval's callback, once its registerTunnelRoute has ended: a
\* failure is logged, and so would an exception be.
refreshCallback(iv, p, result) == iv

\* The record of a registerTunnelRoute call.
routeCall(by, p, port, ip, answer) ==
  LET result == routeResult(backendUrl, p, curlPost(answer))
  IN  [called |-> TRUE, by |-> by, p |-> p, port |-> port, ip |-> ip, answer |-> answer,
       post |-> IF result.sent THEN routePost(p, port, ip, healthCheckPath) ELSE NotSent,
       result |-> result]

\* startRequester's route announcement with the routePort and routeIp of the
\* register response: registerTunnelRoute, and startRouteRefreshLoop when it
\* succeeded.
RouteAnnounce(p, port, ip, answer) ==
  LET call == routeCall("start", p, port, ip, answer) IN
  /\ lastRoute' = call
  /\ intervals' = IF call.result.success
                  THEN startRefresh(backendUrl, intervals, p, port, ip)
                  ELSE intervals
  /\ timers' = IF call.result.success
               THEN startTimers(backendUrl, intervals, timers, p, port, ip)
               ELSE timers
  /\ UNCHANGED <<backendUrl, healthCheckPath>>
  /\ UNCHANGED <<provVars, apiVars, reqVars, waitVars, parseVars, setupVars>>

\* The interval of p fires and its registerTunnelRoute ends.
RefreshTick(p, answer) ==
  /\ \E h \in BagToSet(timers) :
       /\ h[1] = p
       /\ LET call == routeCall("tick", p, h[2], h[3], answer) IN
            /\ lastRoute' = call
            /\ intervals' = refreshCallback(intervals, p, call.result)
  /\ UNCHANGED timers
  /\ UNCHANGED <<backendUrl, healthCheckPath>>
  /\ UNCHANGED <<provVars, apiVars, reqVars, waitVars, parseVars, setupVars>>

\* stopRouteRefreshLoop(p), as stopRequester calls it.
RouteStop(p) ==
  /\ intervals' = clearLoop(intervals, p)
  /\ timers' = stopTimers(intervals, timers, p)
  /\ lastRoute' = NoRoute
  /\ UNCHANGED <<backendUrl, healthCheckPath>>
  /\ UNCHANGED <<provVars, apiVars, reqVars, waitVars, parseVars, setupVars>>

\* stopAllRouteRefreshLoops()
RouteStopAll ==
  /\ intervals' = NoIntervals
  /\ timers' = stopAllTimers(intervals, timers, DOMAIN intervals)
  /\ lastRoute' = NoRoute
  /\ UNCHANGED <<backendUrl, healthCheckPath>>
  /\ UNCHANGED <<provVars, apiVars, reqVars, waitVars, parseVars, setupVars>>

InitRoute ==
  /\ backendUrl \in BOOLEAN
  /\ healthCheckPath \in HealthCheckPaths
  /\ intervals = NoIntervals
  /\ timers = EmptyBag
  /\ lastRoute = NoRoute

\* No route announced; BACKEND_URL is configured.
IdleRoute ==
  /\ backendUrl = TRUE
  /\ healthCheckPath = ""
  /\ intervals = NoIntervals
  /\ timers = EmptyBag
  /\ lastRoute = NoRoute

NextRoute ==
  \/ \E p \in RouteStrings, port \in RoutePorts, ip \in RouteIps, answer \in BackendAnswers :
       RouteAnnounce(p, port, ip, answer)
  \/ \E p \in RouteStrings, answer \in BackendAnswers : RefreshTick(p, answer)
  \/ \E p \in RouteStrings : RouteStop(p)
  \/ RouteStopAll

\* --------------------------------------- requester: connection strings

NoParse == [pc |-> "none", b |-> "", u |-> "", s |-> "", text |-> "", out |-> ParseError]

\* The fields a connection string is to be made of.
InitParse ==
  \E b \in BackendTexts, u \in UserTexts, s \in SignatureTexts :
    parsed = [NoParse EXCEPT !.pc = "fields", !.b = b, !.u = u, !.s = s]

IdleParse == parsed = NoParse

\* The connection string is written from its fields.
Serialize ==
  /\ parsed.pc = "fields"
  /\ parsed' = [parsed EXCEPT !.pc = "text", !.text = serialize(parsed.b, parsed.u, parsed.s)]
  /\ UNCHANGED <<provVars, apiVars, reqVars, waitVars, routeVars, setupVars>>

\* parseProvider(providerString) is called with it.
ParseProvider ==
  /\ parsed.pc = "text"
  /\ parsed' = [parsed EXCEPT !.pc = "parsed",
                              !.out = IF parsed.text = "" THEN ParseError
                                      ELSE parseProvider(split(parsed.text, ","))]
  /\ UNCHANGED <<provVars, apiVars, reqVars, waitVars, routeVars, setupVars>>

NextParse == Serialize \/ ParseProvider

\* What the requester's supervisor leaves alone.
envVars == <<provVars, apiVars, waitVars, routeVars, parseVars, setupVars>>

\* ------------------------------------------- requester: route refresh loops

\* stopRouteRefreshLoop(providerString)
stopRouteRefreshLoop(X, p) == [X EXCEPT !.refresh = @ \ {p}]

\* startRouteRefreshLoop(providerString, ...) with BACKEND_URL configured
startRouteRefreshLoop(X, p) ==
  LET stopped == stopRouteRefreshLoop(X, p)
  IN  [stopped EXCEPT !.refresh = @ \cup {p}]

\* -------------------------------------------------- requester: supervisor

\* activeProviders.add(p): a new element goes to the end of the Set, where
\* every iteration in progress will still visit it.
activeAdd(X, p) ==
  IF p \in SeqToSet(X.active) THEN X
  ELSE [X EXCEPT !.active = Append(@, p),
                 !.tasks = [t \in TaskIds |-> [@[t] EXCEPT !.visited = @ \ {p}]]]

\* activeProviders.delete(p)
activeDelete(X, p) == [X EXCEPT !.active = Remove(@, p)]

\* The calls a task has made, in order. A pass whose stop loop comes upon the
\* same provider again (another call made it active again meanwhile) stops
\* it again; the log notes a stop that directly repeats within the stop
\* loop once, which keeps it finite.
noteStop(log, p) ==
  IF <<"stop", p>> \in SeqToSet(log) /\ \A i \in 1 .. Len(log) : log[i][1] = "stop"
  THEN log
  ELSE Append(log, <<"stop", p>>)

\* stopRequester(p) up to config.down(): the refresh loop is cancelled, the
\* config path is computed (getConfigPath) and config.down() is called.
stopRequesterBegin(X, t, p) ==
  LET cancelled == stopRouteRefreshLoop(X, p)
  IN  [cancelled EXCEPT !.tasks[t].pc = "stop_down", !.tasks[t].cur = p,
                        !.tasks[t].route = "none", !.tasks[t].asked = {},
                        !.tasks[t].log = noteStop(@, p)]

\* startRequester(p) up to its first await: waitForProvider's first probe.
startRequesterBegin(X, t, p) ==
  [X EXCEPT !.tasks[t].pc = "start_probe", !.tasks[t].cur = p,
            !.tasks[t].reg = "none", !.tasks[t].route = "none", !.tasks[t].asked = {},
            !.tasks[t].log = Append(@, <<"start", p>>)]

\* The end of updateRequestersFromConfig: startWatching or stopWatching, and
\* the return.
reconcileReturn(X, t) ==
  [X EXCEPT !.watching = (X.active # <<>>),
            !.tasks[t].pc = "done", !.tasks[t].cur = NoProvider]

\* The start loop starts every provider of the configuration, active or
\* not.
startLoop_EveryProvider(X, t, from) ==
  LET T == X.tasks[t]
  IN  IF from > Len(T.cfg) THEN reconcileReturn(X, t)
      ELSE startRequesterBegin([X EXCEPT !.tasks[t].idx = from], t, T.cfg[from])

\* The loop `for (const provider of config.providers)` of
\* updateRequestersFromConfig from index `from`, up to the next await.
startLoop(X, t, from) ==
  LET T == X.tasks[t]
      hits == {i \in from .. Len(T.cfg) : T.cfg[i] \notin SeqToSet(X.active)}
  IN  IF hits = {} THEN reconcileReturn(X, t)
      ELSE startRequesterBegin([X EXCEPT !.tasks[t].idx = Min(hits)], t, T.cfg[Min(hits)])

\* The pass goes to its starts without stopping anything.
stopLoop_StartsFirst(X, t) == startLoop(X, t, 1)

\* The loop `for (const activeProvider of activeProviders)` of
\* updateRequestersFromConfig, resumed after the elements task t has visited,
\* up to the next await.
stopLoop(X, t) ==
  LET T == X.tasks[t]
      unvisited == SelectSeq(X.active, LAMBDA a : a \notin T.visited)
      hits == {i \in 1 .. Len(unvisited) : unvisited[i] \notin SeqToSet(T.cfg)}
  IN  IF hits = {} THEN startLoop([X EXCEPT !.tasks[t].visited = {}], t, 1)
      ELSE stopRequesterBegin(
             [X EXCEPT !.tasks[t].visited = @ \cup {unvisited[j] : j \in 1 .. Min(hits)}],
             t, unvisited[Min(hits)])

\* The restart callback restarts every provider of currentConfig.providers.
restartLoop_EveryProvider(X, t, from) ==
  LET T == X.tasks[t]
  IN  IF from > Len(T.cfg) THEN [X EXCEPT !.tasks[t].pc = "done", !.tasks[t].cur = NoProvider]
      ELSE stopRequesterBegin([X EXCEPT !.tasks[t].idx = from], t, T.cfg[from])

\* The restart callback's loop over currentConfig.providers from index
\* `from`, up to the next await.
restartLoop(X, t, from) ==
  LET T == X.tasks[t]
      hits == {i \in from .. Len(T.cfg) : T.cfg[i] = T.trigger}
  IN  IF hits = {} THEN [X EXCEPT !.tasks[t].pc = "done", !.tasks[t].cur = NoProvider]
      ELSE stopRequesterBegin([X EXCEPT !.tasks[t].idx = Min(hits)], t, T.cfg[Min(hits)])

\* What follows `await stopRequester(...)` in the caller.
afterStop(X, t) ==
  LET T == X.tasks[t] IN
  IF T.kind = "reconcile"
  THEN LET deleted == activeDelete(X, T.cur)
           removed == [deleted EXCEPT !.watched = @ \ {T.cur}]
       IN  stopLoop(removed, t)
  ELSE startRequesterBegin(X, t, T.cfg[T.idx])

\* What follows `await startRequester(...)` in the caller.
afterStart(X, t) ==
  LET T == X.tasks[t] IN
  IF T.kind = "reconcile"
  THEN [activeAdd(X, T.cur) EXCEPT !.tasks[t].pc = "watch_path"]
  ELSE restartLoop(X, t, T.idx + 1)

\* An await of startRequester's try block rejects, or a statement of it
\* throws, at the step `step` of task t.
raised(X, t, step) == [X EXCEPT !.tasks[t].failed = step]

\* The failure is logged and startRequester returns to its caller.
startRequesterCatch_Returns(X, t) == afterStart(X, t)

\* catch (err) { console.error(err); process.exit(51); } of startRequester.
\* The process ends: its memory (the module state, the timers, the other
\* calls in progress) is gone, the interfaces and files stay as they are. The
\* failing call is kept as the record of what ended the process.
startRequesterCatch(X, t) ==
  [X EXCEPT !.exitCode = EXIT_START_FAILED,
            !.currentConfig = <<>>, !.active = <<>>, !.refresh = {},
            !.watched = {}, !.watching = FALSE,
            !.tasks = [k \in TaskIds |->
                         IF k = t THEN [X.tasks[t] EXCEPT !.visited = {}]
                         ELSE IdleTask]]

\* registerProvider's result for a response: a failed curl or a body that
\* JSON.parse refuses is thrown, any parsed body is returned.
registerProvider(resp) ==
  IF resp \in {"curlError", "notJson"} THEN [threw |-> TRUE, result |-> "none"]
  ELSE [threw |-> FALSE, result |-> resp]

\* Any body that parses is taken for a register response.
afterRegister_AnyBody(X, t, resp) ==
  LET r == registerProvider(resp)
      got == [X EXCEPT !.tasks[t].reg = resp]
  IN  IF r.threw THEN startRequesterCatch(raised(got, t, "register"), t)
      ELSE [got EXCEPT !.tasks[t].pc = "start_write"]

\* The route is announced as soon as the register response is in hand.
afterRegister_AnnouncesFirst(X, t, resp) ==
  LET r == registerProvider(resp)
      got == [X EXCEPT !.tasks[t].reg = resp]
  IN  IF r.threw \/ r.result # "ok"
      THEN startRequesterCatch(raised(got, t, "register"), t)
      ELSE [got EXCEPT !.tasks[t].pc = "start_route"]

\* startRequester after `await registerProvider(...)`. Its exception ends the
\* start. Of its result, result.wgConfig.wgInterface is dereferenced once the
\* config path is computed (getConfigPath), which throws on a body that is
\* no register response; then config.writeToFile() is called.
afterRegister(X, t, resp) ==
  LET r == registerProvider(resp)
      got == [X EXCEPT !.tasks[t].reg = resp]
  IN  IF r.threw \/ r.result # "ok"
      THEN startRequesterCatch(raised(got, t, "register"), t)
      ELSE [got EXCEPT !.tasks[t].pc = "start_write"]

\* registerTunnelRoute(providerString, routePort, routeIp) with BACKEND_URL
\* configured, given what its POST comes back with: it fails without
\* sending anything when the string holds no userId or no signature, and on
\* an error body, a failed curl or a body JSON.parse refuses; it never
\* throws.
registerTunnelRoute(p, answer) ==
  IF routeResult(TRUE, p, answer).success THEN "success" ELSE "failure"

\* A failed route registration is thrown into startRequester's catch.
afterRoute_FailureThrows(X, t, res) ==
  LET noted == [X EXCEPT !.tasks[t].route = res]
  IN  IF res = "success"
      THEN afterStart(startRouteRefreshLoop(noted, noted.tasks[t].cur), t)
      ELSE startRequesterCatch(raised(noted, t, "route"), t)

\* startRequester after `await registerTunnelRoute(...)`: on success the
\* refresh loop is started, a failure is logged; startRequester returns to
\* its caller.
afterRoute(X, t, res) ==
  LET noted  == [X EXCEPT !.tasks[t].route = res]
      routed == IF res = "success" THEN startRouteRefreshLoop(noted, noted.tasks[t].cur)
                ELSE noted
  IN  afterStart(routed, t)

\* ----------------------------------------------------- requester: actions

\* The process runs, and every call that has returned has been taken note of
\* by its caller (Reap), so that a call found "done" is found in the state
\* it returned in.
Running == exitCode = 0 /\ \A t \in TaskIds : tasks[t].pc # "done"

\* The slot among `slots` that a new call takes.
FreeSlot(slots) == Min({t \in slots : tasks[t].kind = "idle"})

HasFreeSlot(slots) == \E t \in slots : tasks[t].kind = "idle"

\* updateRequestersFromConfig(config) is called: currentConfig is replaced
\* and the stop loop runs up to its first await.
CallUpdate(cfg, slots) ==
  /\ Running
  /\ HasFreeSlot(slots)
  /\ LET t == FreeSlot(slots)
         called == [ReqState EXCEPT
                      !.currentConfig = cfg,
                      !.tasks[t] = [IdleTask EXCEPT !.kind = "reconcile", !.cfg = cfg]]
     IN  SetReq(stopLoop(called, t))
  /\ UNCHANGED envVars

\* The handshake watcher finds the tunnel of a registered provider stale and
\* calls the restart callback, which runs up to its first await.
WatcherStale(p, slots) ==
  /\ Running
  /\ HasFreeSlot(slots)
  /\ watching
  /\ p \in watched
  /\ LET t == FreeSlot(slots)
         called == [ReqState EXCEPT
                      !.tasks[t] = [IdleTask EXCEPT !.kind = "restart", !.trigger = p,
                                                    !.cfg = currentConfig]]
     IN  SetReq(restartLoop(called, t, 1))
  /\ UNCHANGED envVars

\* The caller of a call that has returned takes note of it.
Reap(t) ==
  /\ exitCode = 0
  /\ tasks[t].pc = "done"
  /\ tasks' = [tasks EXCEPT ![t] = IdleTask]
  /\ UNCHANGED <<currentConfig, activeProviders, refreshIntervals, watched, watching,
                 iface, confFile, exitCode>>
  /\ UNCHANGED envVars

At(t, pc) == Running /\ tasks[t].pc = pc

\* stopRequester: config.down() has ended, with the interface down or with an
\* error that is logged; fs.unlink is called.
StopDown(t, ok) ==
  /\ At(t, "stop_down")
  /\ LET u == providerURL(tasks[t].cur)
         downed == IF ok THEN [ReqState EXCEPT !.iface[u] = "down"] ELSE ReqState
     IN  SetReq([downed EXCEPT !.tasks[t].pc = "stop_unlink"])
  /\ UNCHANGED envVars

\* stopRequester: fs.unlink has ended, with the file gone or with an error
\* that is logged; stopRequester returns to its caller.
StopUnlink(t, ok) ==
  /\ At(t, "stop_unlink")
  /\ LET u == providerURL(tasks[t].cur)
         unlinked == IF ok THEN [ReqState EXCEPT !.confFile[u] = FALSE] ELSE ReqState
     IN  SetReq(afterStop(unlinked, t))
  /\ UNCHANGED envVars

\* startRequester, waitForProvider: a probe of /api/ping has ended. "ok" ends
\* the wait and getOrGenerateKeyPair is called; anything else is followed by
\* the retry interval and the next probe (maxRetries is -1: no bound).
StartProbe(t, ok) ==
  /\ At(t, "start_probe")
  /\ ok => providerURL(tasks[t].cur) # ""
  /\ LET probed == [ReqState EXCEPT !.tasks[t].asked = @ \cup {"/api/ping"}]
     IN  SetReq(IF ok THEN [probed EXCEPT !.tasks[t].pc = "start_keys"] ELSE probed)
  /\ UNCHANGED envVars

\* startRequester: getOrGenerateKeyPair has ended; registerProvider is called.
StartKeys(t, ok) ==
  /\ At(t, "start_keys")
  /\ SetReq(IF ok THEN [ReqState EXCEPT !.tasks[t].pc = "start_register"]
            ELSE startRequesterCatch(raised(ReqState, t, "keys"), t))
  /\ UNCHANGED envVars

\* startRequester: registerProvider has ended.
StartRegister(t, resp) ==
  /\ At(t, "start_register")
  /\ LET posted == [ReqState EXCEPT !.tasks[t].asked = @ \cup {"/api/register"}]
     IN  SetReq(afterRegister(posted, t, resp))
  /\ UNCHANGED envVars

\* startRequester: config.writeToFile() has ended; config.down() is called.
StartWrite(t, ok) ==
  /\ At(t, "start_write")
  /\ LET u == providerURL(tasks[t].cur) IN
     SetReq(IF ok THEN [ReqState EXCEPT !.confFile[u] = TRUE, !.tasks[t].pc = "start_down"]
            ELSE startRequesterCatch(raised(ReqState, t, "write"), t))
  /\ UNCHANGED envVars

\* startRequester: config.down() has ended; config.up() is called.
StartDown(t, ok) ==
  /\ At(t, "start_down")
  /\ LET u == providerURL(tasks[t].cur) IN
     SetReq(IF ok THEN [ReqState EXCEPT !.iface[u] = "down", !.tasks[t].pc = "start_up"]
            ELSE startRequesterCatch(raised(ReqState, t, "down"), t))
  /\ UNCHANGED envVars

\* startRequester: config.up() has ended (it cannot succeed without its
\* config file). The ping of serverIp follows, its failure only logged, and
\* registerTunnelRoute is called.
StartUp(t, ok) ==
  /\ At(t, "start_up")
  /\ LET u == providerURL(tasks[t].cur) IN
     /\ ok => confFile[u]
     /\ SetReq(IF ok THEN [ReqState EXCEPT !.iface[u] = "up", !.tasks[t].pc = "start_route"]
               ELSE startRequesterCatch(raised(ReqState, t, "up"), t))
  /\ UNCHANGED envVars

\* startRequester: registerTunnelRoute has returned.
StartRoute(t, answer) ==
  /\ At(t, "start_route")
  /\ SetReq(afterRoute(ReqState, t, registerTunnelRoute(tasks[t].cur, answer)))
  /\ UNCHANGED envVars

\* updateRequestersFromConfig: getConfigPath has returned; the provider is
\* registered with the watcher and the start loop goes on.
WatchPath(t) ==
  /\ At(t, "watch_path")
  /\ LET T == tasks[t]
         added == [ReqState EXCEPT !.watched = @ \cup {T.cur}, !.tasks[t].route = "none"]
     IN  SetReq(startLoop(added, t, T.idx + 1))
  /\ UNCHANGED envVars

InitRequester ==
  /\ currentConfig = <<>>
  /\ activeProviders = <<>>
  /\ refreshIntervals = {}
  /\ watched = {}
  /\ watching = FALSE
  /\ iface = [u \in Urls |-> "down"]
  /\ confFile = [u \in Urls |-> FALSE]
  /\ exitCode = 0
  /\ tasks = [t \in TaskIds |-> IdleTask]

\* The steps of the calls in progress.
NextStep ==
  \/ \E t \in TaskIds : Reap(t)
  \/ \E t \in TaskIds, ok \in BOOLEAN : StopDown(t, ok)
  \/ \E t \in TaskIds, ok \in BOOLEAN : StopUnlink(t, ok)
  \/ \E t \in TaskIds, ok \in BOOLEAN : StartProbe(t, ok)
  \/ \E t \in TaskIds, ok \in BOOLEAN : StartKeys(t, ok)
  \/ \E t \in TaskIds, resp \in RegisterResponses : StartRegister(t, resp)
  \/ \E t \in TaskIds, ok \in BOOLEAN : StartWrite(t, ok)
  \/ \E t \in TaskIds, ok \in BOOLEAN : StartDown(t, ok)
  \/ \E t \in TaskIds, ok \in BOOLEAN : StartUp(t, ok)
  \/ \E t \in TaskIds, answer \in RouteAnswers : StartRoute(t, answer)
  \/ \E t \in TaskIds : WatchPath(t)

\* The requester with configurations over both providers, each listed at
\* most once: one reconcile pass at a time, and one restart callback that
\* runs alongside it.
NextRequester ==
  \/ \E cfg \in DistinctConfigs(Providers) : CallUpdate(cfg, {1})
  \/ \E p \in Providers : WatcherStale(p, {2})
  \/ NextStep

\* The provider string of the configurations of the overlapping calls.
OneProvider == {<<"http://p1", "alice", "sigA">>}

\* The requester with configurations over one provider: any two calls,
\* reconcile passes and restart callbacks, overlap.
NextOverlap ==
  \/ \E cfg \in Configs(OneProvider) : CallUpdate(cfg, TaskIds)
  \/ \E p \in OneProvider : WatcherStale(p, TaskIds)
  \/ NextStep

\* The configurations that list one connection string, or none.
SingleConfigs(P) == {<<>>} \cup {<<p>> : p \in P}

\* The requester with configurations of one connection string, well-formed
\* or malformed: one reconcile pass at a time, and one restart callback that
\* runs alongside it.
NextStrings ==
  \/ \E cfg \in SingleConfigs(ProviderStrings) : CallUpdate(cfg, {1})
  \/ \E p \in ProviderStrings : WatcherStale(p, {2})
  \/ NextStep

\* The provider whose /api/ping never answers "ok".
Unreachable == <<"http://p1", "alice", "sigA">>

\* The steps of the calls in progress when one provider is unreachable and
\* nothing else fails for good: every probe of the unreachable provider
\* fails, every other probe and every step whose failure would end the
\* process succeeds; the failures that are only logged stay possible.
StepUnreachable ==
  \/ \E t \in TaskIds : Reap(t)
  \/ \E t \in TaskIds, ok \in BOOLEAN : StopDown(t, ok)
  \/ \E t \in TaskIds, ok \in BOOLEAN : StopUnlink(t, ok)
  \/ \E t \in TaskIds : StartProbe(t, tasks[t].cur # Unreachable)
  \/ \E t \in TaskIds : StartKeys(t, TRUE)
  \/ \E t \in TaskIds : StartRegister(t, "ok")
  \/ \E t \in TaskIds : StartWrite(t, TRUE)
  \/ \E t \in TaskIds : StartDown(t, TRUE)
  \/ \E t \in TaskIds : StartUp(t, TRUE)
  \/ \E t \in TaskIds, answer \in RouteAnswers : StartRoute(t, answer)
  \/ \E t \in TaskIds : WatchPath(t)

\* Reconcile passes, one at a time, and restart callbacks alongside them,
\* with one provider unreachable.
NextUnreachable ==
  \/ \E cfg \in DistinctConfigs(Providers) : CallUpdate(cfg, {1})
  \/ \E p \in Providers : WatcherStale(p, {2})
  \/ StepUnreachable

\* The steps of the calls in progress when the interface-down and the
\* unlink of every stopRequester succeed.
StepStopsSucceed ==
  \/ \E t \in TaskIds : Reap(t)
  \/ \E t \in TaskIds : StopDown(t, TRUE)
  \/ \E t \in TaskIds : StopUnlink(t, TRUE)
  \/ \E t \in TaskIds, ok \in BOOLEAN : StartProbe(t, ok)
  \/ \E t \in TaskIds, ok \in BOOLEAN : StartKeys(t, ok)
  \/ \E t \in TaskIds, resp \in RegisterResponses : StartRegister(t, resp)
  \/ \E t \in TaskIds, ok \in BOOLEAN : StartWrite(t, ok)
  \/ \E t \in TaskIds, ok \in BOOLEAN : StartDown(t, ok)
  \/ \E t \in TaskIds, ok \in BOOLEAN : StartUp(t, ok)
  \/ \E t \in TaskIds, answer \in RouteAnswers : StartRoute(t, answer)
  \/ \E t \in TaskIds : WatchPath(t)

\* Reconcile passes, one at a time, and restart callbacks alongside them,
\* with stops that succeed.
NextRemoval ==
  \/ \E cfg \in DistinctConfigs(Providers) : CallUpdate(cfg, {1})
  \/ \E p \in Providers : WatcherStale(p, {2})
  \/ StepStopsSucceed

\* ------------------------------------------- provider: startup

\* The private keys a configuration file can hold, and those `wg genkey`
\* makes.
StoredKeys == {"skA", "skB"}
GeneratedKeys == {"skNew", "skNew2"}

\* `echo key | wg pubkey`
pubkey(sk) == <<"pub", sk>>

\* No PrivateKey line; the key fields before setup: ''.
NoKey == ""

NoPeers == [n \in Names |-> NoPeer]

\* The contents of WG_CONFIG_PATH: absent, or with or without a PrivateKey
\* line and with the peers the provider wrote.
NoFile == [exists |-> FALSE, privateKey |-> NoKey, peers |-> NoPeers]

ConfigFiles ==
  {NoFile} \cup [exists : {TRUE}, privateKey : StoredKeys \cup {NoKey}, peers : PersistedConfigs]

\* The scaffold written for a new interface: the key and an empty peers list.
scaffold(sk) == [exists |-> TRUE, privateKey |-> sk, peers |-> NoPeers]

\* setupWireguardConfig without the return that ends it when the key was
\* read from the file.
setupWireguardConfig_AlwaysScaffold(file, genkey) ==
  LET found == file.exists /\ file.privateKey # NoKey
      sk == IF found THEN file.privateKey ELSE genkey
  IN  [file |-> scaffold(sk), serverPrivateKey |-> sk, serverPublicKey |-> pubkey(sk),
       generated |-> ~found, wrote |-> TRUE]

\* VPNManager.setupWireguardConfig() on the file found, `genkey` being what
\* `wg genkey` gives if it is run.
setupWireguardConfig(file, genkey) ==
  IF file.exists /\ file.privateKey # NoKey
  THEN [file |-> file, serverPrivateKey |-> file.privateKey,
        serverPublicKey |-> pubkey(file.privateKey), generated |-> FALSE, wrote |-> FALSE]
  ELSE [file |-> scaffold(genkey), serverPrivateKey |-> genkey,
        serverPublicKey |-> pubkey(genkey), generated |-> TRUE, wrote |-> TRUE]

NoBoot == [pc |-> "none", before |-> NoFile, file |-> NoFile,
           serverPrivateKey |-> NoKey, serverPublicKey |-> <<>>,
           generated |-> FALSE, wrote |-> FALSE]

\* The provider is started on a file.
InitSetup == \E file \in ConfigFiles : boot = [NoBoot EXCEPT !.pc = "start", !.before = file, !.file = file]

\* No startup is followed.
IdleSetup == boot = NoBoot

\* setup: the reserved addresses are leased and setupWireguardConfig runs.
SetupWireguardConfig(genkey) ==
  /\ boot.pc = "start"
  /\ LET r == setupWireguardConfig(boot.file, genkey) IN
       boot' = [boot EXCEPT !.pc = "config", !.file = r.file,
                            !.serverPrivateKey = r.serverPrivateKey,
                            !.serverPublicKey = r.serverPublicKey,
                            !.generated = r.generated, !.wrote = r.wrote]
  /\ UNCHANGED <<provVars, apiVars, reqVars, waitVars, routeVars, parseVars>>

\* setup: the PeerMap is read from the file and its peers' addresses leased.
LoadPeers ==
  /\ boot.pc = "config"
  /\ LET st == setup(boot.file.peers) IN
       /\ ~st.threw
       /\ peerMap' = st.peerMap
       /\ leasedIps' = st.leasedIps
       /\ persistedPeers' = boot.file.peers
  /\ boot' = [boot EXCEPT !.pc = "loaded"]
  /\ UNCHANGED lastReg
  /\ UNCHANGED <<apiVars, reqVars, waitVars, routeVars, parseVars>>

NextSetup ==
  \/ \E genkey \in GeneratedKeys : SetupWireguardConfig(genkey)
  \/ LoadPeers

\* ------------------------------------------- provider: API requests

NoPost == [called |-> FALSE, userId |-> "", pk |-> "none", answer |-> NoAuthCall,
           pre |-> [peerMap |-> [n \in Names |-> NoPeer], leasedIps |-> {}],
           vpnCalled |-> FALSE, status |-> 0, body |-> "none", result |-> NoResult]

NoGet == [called |-> FALSE, host |-> <<>>, status |-> 0, body |-> <<>>]

\* The requests that can be in progress at once.
HandlerIds == {1, 2}

\* A handler that serves no request.
IdleHandler == [pc |-> "idle", userId |-> "", pk |-> "none"]

NoHandlers == [h \in HandlerIds |-> IdleHandler]

\* The handler's part after the auth backend's answer, to its response.
Respond(userId, pk, answer) ==
  LET r == postRegister(ProvState(peerMap, leasedIps), authApiUrl, announcedDomain,
                        userId, pk, answer)
      name == serverDataOf(authApiUrl, announcedDomain, userId, answer).domainName
  IN  /\ (~authApiUrl) => answer = NoAuthCall
      /\ peerMap' = r.st.peerMap
      /\ leasedIps' = r.st.leasedIps
      /\ lastReg' = IF r.vpnCalled
                    THEN [called |-> TRUE, name |-> name, pk |-> pk,
                          pre |-> [peerMap |-> peerMap, leasedIps |-> leasedIps],
                          ops |-> r.st.ops, threw |-> r.st.threw,
                          address |-> r.result.address]
                    ELSE NoCall
      /\ lastPost' = [called |-> TRUE, userId |-> userId, pk |-> pk, answer |-> answer,
                      pre |-> [peerMap |-> peerMap, leasedIps |-> leasedIps],
                      vpnCalled |-> r.vpnCalled, status |-> r.status, body |-> r.body,
                      result |-> r.result]
      /\ lastGet' = NoGet
      /\ UNCHANGED <<persistedPeers, authApiUrl, announcedDomain>>
      /\ UNCHANGED <<reqVars, waitVars, routeVars, parseVars, setupVars>>

\* POST /api/register {userId, vpnPublicKey, authToken}; `answer` is what
\* the auth backend says of the userId and authToken.
PostRegister(userId, pk, answer) ==
  /\ Respond(userId, pk, answer)
  /\ UNCHANGED handlers

\* A handler that releases the name's address before it asks the auth
\* backend.
suspend_RemovesFirst(st, userId) ==
  IF userId \in Names THEN removeWgPeer(st, userId) ELSE st

\* ApiServer.registerPeer up to `await axios.get(...)`: the provider's state
\* when the handler is suspended.
suspend(st, userId) == st

\* POST /api/register with authApiUrl configured: the handler sends the auth
\* request and is suspended until the answer comes.
HandlerBegin(h, userId, pk) ==
  LET st == suspend(ProvState(peerMap, leasedIps), userId) IN
    /\ authApiUrl
    /\ handlers[h].pc = "idle"
    /\ handlers' = [handlers EXCEPT ![h] = [pc |-> "auth", userId |-> userId, pk |-> pk]]
    /\ peerMap' = st.peerMap
    /\ leasedIps' = st.leasedIps
    /\ lastReg' = NoCall
    /\ lastPost' = NoPost
    /\ lastGet' = NoGet
    /\ UNCHANGED <<persistedPeers, authApiUrl, announcedDomain>>
    /\ UNCHANGED <<reqVars, waitVars, routeVars, parseVars, setupVars>>

\* The auth backend answers a suspended handler, which runs to its response.
HandlerResume(h, answer) ==
  /\ handlers[h].pc = "auth"
  /\ Respond(handlers[h].userId, handlers[h].pk, answer)
  /\ handlers' = [handlers EXCEPT ![h] = IdleHandler]

\* GET /api/get_ip/<host>
GetIp(host) ==
  LET r == getIp(peerMap, announcedDomain, host) IN
    /\ lastGet' = [called |-> TRUE, host |-> host, status |-> r.status, body |-> r.body]
    /\ lastPost' = NoPost
    /\ lastReg' = NoCall
    /\ UNCHANGED <<peerMap, leasedIps, persistedPeers, authApiUrl, announcedDomain, handlers>>
    /\ UNCHANGED <<reqVars, waitVars, routeVars, parseVars, setupVars>>

\* The provider as started on an empty file, under any configuration.
InitApi ==
  /\ peerMap = setup([n \in Names |-> NoPeer]).peerMap
  /\ leasedIps = setup([n \in Names |-> NoPeer]).leasedIps
  /\ lastReg = NoCall
  /\ persistedPeers = [n \in Names |-> NoPeer]
  /\ authApiUrl \in BOOLEAN
  /\ announcedDomain \in Domains
  /\ lastPost = NoPost
  /\ lastGet = NoGet
  /\ handlers = NoHandlers

\* The API variables of a provider that serves no HTTP request.
IdleApi ==
  /\ authApiUrl = FALSE
  /\ announcedDomain = <<"e", "x", "a", "m", "p", "l", "e", ".", "c", "o", "m">>
  /\ lastPost = NoPost
  /\ lastGet = NoGet
  /\ handlers = NoHandlers

NextApi ==
  \/ \E userId \in UserIds, pk \in Keys, answer \in AuthAnswers :
       PostRegister(userId, pk, answer)
  \/ \E host \in Hosts : GetIp(host)

\* The auth backend's answers to the suspended handlers: a rejection, or a
\* name under the provider's domain.
HandlerAnswers ==
  {a \in AuthAnswers : a.rejected \/ (a.serverDomain = announcedDomain /\ a.domainName # NoName)}

\* Requests served at once: a registration can begin, and a name be
\* resolved, while other registrations wait for the auth backend.
NextHandlers ==
  \/ \E h \in HandlerIds, userId \in UserIds, pk \in Keys : HandlerBegin(h, userId, pk)
  \/ \E h \in HandlerIds, answer \in HandlerAnswers : HandlerResume(h, answer)
  \/ \E n \in Names : GetIp(Chars(n) \o <<"-">> \o escaped(announcedDomain))

\* ---------------------------------------------------------- specifications

vars == <<provVars, apiVars, reqVars, waitVars, routeVars, parseVars, setupVars>>

\* The provider, serving registerPeer calls.
Init == InitProvider /\ IdleApi /\ InitRequester /\ IdleWait /\ IdleRoute /\ IdleParse /\ IdleSetup

Next == NextProvider /\ UNCHANGED <<apiVars, reqVars, waitVars, routeVars, parseVars, setupVars>>

Spec == Init /\ [][Next]_vars

\* The provider's HTTP API, serving registrations and name resolutions.
InitSpecApi == InitApi /\ InitRequester /\ IdleWait /\ IdleRoute /\ IdleParse /\ IdleSetup

SpecApi == InitSpecApi /\ [][NextApi]_vars

\* The provider's HTTP API with an auth backend, serving requests at once.
InitSpecHandlers == InitSpecApi /\ authApiUrl

SpecHandlers == InitSpecHandlers /\ [][NextHandlers]_vars

\* The requester, with the provider as started on an empty file.
InitReq ==
  /\ peerMap = setup([n \in Names |-> NoPeer]).peerMap
  /\ leasedIps = setup([n \in Names |-> NoPeer]).leasedIps
  /\ lastReg = NoCall
  /\ persistedPeers = [n \in Names |-> NoPeer]
  /\ IdleApi
  /\ InitRequester
  /\ IdleWait
  /\ IdleRoute
  /\ IdleParse
  /\ IdleSetup

SpecReq == InitReq /\ [][NextRequester]_vars

SpecOverlap == InitReq /\ [][NextOverlap]_vars

SpecStrings == InitReq /\ [][NextStrings]_vars

SpecRemoval == InitReq /\ [][NextRemoval]_vars

\* The requester with an unreachable provider. Every await of a call in
\* progress ends: the commands it waits for have timeouts or end by
\* themselves, and the retry sleep is a timer.
SpecUnreachable == InitReq /\ [][NextUnreachable]_vars /\ WF_vars(StepUnreachable)

\* One waitForProvider call.
InitSpecWait ==
  /\ peerMap = setup([n \in Names |-> NoPeer]).peerMap
  /\ leasedIps = setup([n \in Names |-> NoPeer]).leasedIps
  /\ lastReg = NoCall
  /\ persistedPeers = [n \in Names |-> NoPeer]
  /\ IdleApi
  /\ InitRequester
  /\ InitWait
  /\ IdleRoute
  /\ IdleParse
  /\ IdleSetup

SpecWait == InitSpecWait /\ [][NextWait]_vars

\* The provider's startup, before any request is served.
InitSpecSetup ==
  /\ peerMap = NoPeers
  /\ leasedIps = {}
  /\ lastReg = NoCall
  /\ persistedPeers = NoPeers
  /\ IdleApi
  /\ InitRequester
  /\ IdleWait
  /\ IdleRoute
  /\ IdleParse
  /\ InitSetup

SpecSetup == InitSpecSetup /\ [][NextSetup]_vars

\* The route registrar: announcements, refresh ticks and stops.
InitSpecRoute ==
  /\ peerMap = setup([n \in Names |-> NoPeer]).peerMap
  /\ leasedIps = setup([n \in Names |-> NoPeer]).leasedIps
  /\ lastReg = NoCall
  /\ persistedPeers = [n \in Names |-> NoPeer]
  /\ IdleApi
  /\ InitRequester
  /\ IdleWait
  /\ InitRoute
  /\ IdleParse
  /\ IdleSetup

SpecRoute == InitSpecRoute /\ [][NextRoute]_vars

\* parseProvider on the connection strings made of three fields.
InitSpecParse ==
  /\ peerMap = setup([n \in Names |-> NoPeer]).peerMap
  /\ leasedIps = setup([n \in Names |-> NoPeer]).leasedIps
  /\ lastReg = NoCall
  /\ persistedPeers = [n \in Names |-> NoPeer]
  /\ IdleApi
  /\ InitRequester
  /\ IdleWait
  /\ IdleRoute
  /\ InitParse
  /\ IdleSetup

SpecParse == InitSpecParse /\ [][NextParse]_vars

\* ------------------------------------------------------ provider: claims

\* Names present in the peer table.
Present == {n \in Names : peerMap[n] # NoPeer}

\* Addresses held by the peers of the table.
PeerIps == {peerMap[n].ip : n \in Present}

\* The record `name` had when the last registerPeer call began.
PreRec == lastReg.pre.peerMap[lastReg.name]

\* The last call re-registered a present name with the key it already had.
IsReRegistration == lastReg.called /\ PreRec # NoPeer /\ PreRec.publicKey = lastReg.pk

\* The last call registered a present name with another key.
IsRotation == lastReg.called /\ PreRec # NoPeer /\ PreRec.publicKey # lastReg.pk

\* The position of the first step of `kind` in the last call's steps, 0 if none.
FirstOp(kind) ==
  LET at == {i \in 1 .. Len(lastReg.ops) : lastReg.ops[i][1] = kind}
  IN  IF at = {} THEN 0 ELSE Min(at)

\* C1: registerPeer(pk, n) for a name n present with key pk and address ip
\* returns the interface address ip/32 and leaves the peer table and the
\* leased addresses as they were: no record changed, no address leased or
\* released.
C1_IdempotentReRegistration ==
  IsReRegistration =>
    /\ ~lastReg.threw
    /\ lastReg.address = <<Address(PreRec.ip)>>
    /\ peerMap = lastReg.pre.peerMap
    /\ leasedIps = lastReg.pre.leasedIps
    /\ lastReg.ops = <<>>

\* C1 witness: a re-registration with the same key of a peer that holds an
\* address above the lowest free one.
C1_Witness ==
  /\ IsReRegistration
  /\ \E ip \in Subnet \ leasedIps : ip < PreRec.ip

\* C2: on a key rotation the old record is removed and its address released
\* before the new address is allocated; afterwards the name maps to one
\* record, which carries the new key, no two peers hold the same address and
\* every leased address is a reserved one or the address of a peer.
C2_KeyRotation ==
  IsRotation =>
    /\ ~lastReg.threw
    /\ FirstOp("release") > 0
    /\ lastReg.ops[FirstOp("release")] = <<"release", PreRec.ip>>
    /\ FirstOp("delete") > 0
    /\ FirstOp("release") < FirstOp("allocate")
    /\ FirstOp("delete") < FirstOp("allocate")
    /\ FirstOp("allocate") < FirstOp("add")
    /\ peerMap[lastReg.name] # NoPeer
    /\ peerMap[lastReg.name].publicKey = lastReg.pk
    /\ \A n, m \in Present : n # m => peerMap[n].ip # peerMap[m].ip
    /\ leasedIps = {serverIp, zero} \cup PeerIps

\* C2 witness: a rotation performed while another peer is registered.
C2_Witness ==
  /\ IsRotation
  /\ Cardinality(Present) >= 2
  /\ peerMap[lastReg.name].publicKey = lastReg.pk

\* C3: the addresses of the peers of the table are pairwise distinct, lie in
\* S, and are neither the network address (.0) nor the provider's own (.1).
C3_PeerAddresses ==
  /\ \A n, m \in Present : n # m => peerMap[n].ip # peerMap[m].ip
  /\ \A n \in Present : peerMap[n].ip \in Subnet \ {zero, serverIp}

\* C3 witness: every allocatable address of S is held by a peer, after a
\* rotation.
C3_Witness ==
  /\ IsRotation
  /\ PeerIps = Subnet \ {zero, serverIp}

\* C4 (as claimed): the names of the peers are pairwise distinct and so are
\* their public keys, also after registerPeer(pk, n2) with a key that name n1
\* holds. The table is keyed by name; the keys are what the code leaves
\* unchecked.
C4_UniqueKeys ==
  \A n, m \in Present : n # m => peerMap[n].publicKey # peerMap[m].publicKey

AskedLabel ==
  LET suffix == <<"-">> \o escaped(announcedDomain)
      label  == sliceOff(lastGet.host, Len(suffix))
  IN  IF endsWith(lastGet.host, suffix) /\ \A i \in 1 .. Len(label) : label[i] \notin {"-", "."}
      THEN label ELSE <<>>

\* The last request was rejected by the auth backend, or answered by it
\* without serverDomain or without domainName.
IsUnauthorized ==
  /\ lastPost.called
  /\ authApiUrl
  /\ \/ lastPost.answer.rejected
     \/ lastPost.answer.serverDomain = NoDomain
     \/ lastPost.answer.domainName = NoName

\* The last request registered a name that was absent, with every address
\* of S leased.
IsExhausted ==
  /\ lastPost.called
  /\ lastPost.vpnCalled
  /\ Subnet \subseteq lastPost.pre.leasedIps
  /\ lastPost.pre.peerMap[lastReg.name] = NoPeer

\* C15 (as claimed): GET /api/get_ip/<n>-<d escaped> answers 200 with
\* "http://<ip>:80" when n is registered with address ip and 404 when it is
\* not; for the bare domain it answers with the $root$ peer's address when
\* $root$ is registered and 404 otherwise.
C15_RegisterThenResolve ==
  lastGet.called =>
    /\ AskedLabel # <<>> =>
         LET named == {n \in Present : Chars(n) = AskedLabel} IN
         IF named = {} THEN lastGet.status = 404
         ELSE /\ lastGet.status = 200
              /\ \A n \in named : lastGet.body = urlOf(peerMap[n].ip)
    /\ lastGet.host = escaped(announcedDomain) =>
         IF ROOT_DOMAIN \in Present
         THEN lastGet.status = 200 /\ lastGet.body = urlOf(peerMap[ROOT_DOMAIN].ip)
         ELSE lastGet.status = 404

\* C16 (as claimed): a host whose un-escaped form is neither the announced
\* domain nor <labels>.<announced domain> is answered 404, whatever peers
\* are registered.
C16_SuffixMismatch ==
  lastGet.called =>
    LET host == replaceAll(lastGet.host, "-", ".") IN
    (host # announcedDomain /\ ~endsWith(host, <<".">> \o announcedDomain))
      => lastGet.status = 404

\* C17 (as claimed): with an auth URL configured, a registration the auth
\* backend rejects or answers without serverDomain or domainName is
\* answered 4xx, and leaves the peer table and the leased addresses as
\* they were.
C17_Unauthorized4xx ==
  IsUnauthorized =>
    /\ lastPost.status \in 400 .. 499
    /\ peerMap = lastPost.pre.peerMap
    /\ leasedIps = lastPost.pre.leasedIps

\* C18: with every address of S leased, the registration of an absent name
\* fails in the pool, is answered 500 "Internal error", and leaves the peer
\* table and the leased addresses as they were.
C18_ExhaustedPool ==
  IsExhausted =>
    /\ lastReg.threw
    /\ lastReg.ops = <<>>
    /\ lastPost.status = 500
    /\ lastPost.body = "Internal error"
    /\ peerMap = lastPost.pre.peerMap
    /\ leasedIps = lastPost.pre.leasedIps

\* C18 witness: a third name asks for an address when the two peers
\* registered hold every allocatable address.
C18_Witness ==
  /\ IsExhausted
  /\ Cardinality(Present) >= 2
  /\ lastPost.status = 500

\* C19: a registration that installs a record is given the lowest address
\* of S that is unleased when it allocates (after the release, on a
\* rotation), which is never .0 or .1, and the name maps to the key sent
\* and that address; on a provider started with no peers the first
\* registration is given .2 and the table holds that one record.
C19_LowestFreeAddress ==
  (lastReg.called /\ ~lastReg.threw /\ ~IsReRegistration) =>
    LET held   == IF PreRec # NoPeer THEN {PreRec.ip} ELSE {}
        lowest == Min(Subnet \ (lastReg.pre.leasedIps \ held))
        empty  == [n \in Names |-> NoPeer]
    IN  /\ lastReg.address = <<Address(lowest)>>
        /\ lowest \notin {zero, serverIp}
        /\ peerMap[lastReg.name] = [publicKey |-> lastReg.pk, ip |-> lowest]
        /\ \A n \in Names \ {lastReg.name} : peerMap[n] = lastReg.pre.peerMap[n]
        /\ lastReg.pre.peerMap = empty =>
             /\ lowest = 2
             /\ peerMap = [empty EXCEPT ![lastReg.name] = [publicKey |-> lastReg.pk, ip |-> 2]]

\* C19 witness: scenario E1: the first registration on a provider started
\* with no peers returns .2/32.
C19_Witness ==
  /\ lastReg.called
  /\ lastReg.pre.peerMap = [n \in Names |-> NoPeer]
  /\ lastReg.pre.leasedIps = {zero, serverIp}
  /\ lastReg.address = <<Address(2)>>
  /\ Present = {lastReg.name}

\* C20: the response's domain is serverDomain for "$root$" and
\* <domainName>.<serverDomain> otherwise; with no auth URL the domainName is
\* the userId, "$root$" for an empty userId, and serverDomain the announced
\* domain; the peer is stored under domainName with the key sent.
C20_ResponseDomain ==
  (lastPost.called /\ lastPost.status = 200) =>
    LET r == lastPost.result IN
    /\ r.domainName = ROOT_DOMAIN => r.domain = r.serverDomain
    /\ r.domainName # ROOT_DOMAIN =>
         /\ SubSeq(r.domain, 1, Len(Chars(r.domainName))) = Chars(r.domainName)
         /\ r.domain[Len(Chars(r.domainName)) + 1] = "."
         /\ SubSeq(r.domain, Len(Chars(r.domainName)) + 2, Len(r.domain)) = r.serverDomain
    /\ ~authApiUrl =>
         /\ r.serverDomain = announcedDomain
         /\ lastPost.userId # "" => r.domainName = lastPost.userId
         /\ lastPost.userId = "" => r.domainName = ROOT_DOMAIN
    /\ authApiUrl =>
         /\ r.serverDomain = lastPost.answer.serverDomain
         /\ r.domainName = lastPost.answer.domainName
    /\ lastReg.called /\ lastReg.name = r.domainName
    /\ peerMap[r.domainName] # NoPeer
    /\ peerMap[r.domainName].publicKey = lastPost.pk

\* C20 witness: scenario E4: with no auth URL an empty userId is registered
\* as "$root$" and answered with the announced domain itself.
C20_Witness ==
  /\ lastPost.called
  /\ lastPost.status = 200
  /\ ~authApiUrl
  /\ lastPost.userId = ""
  /\ lastPost.result.domain = announcedDomain
  /\ ROOT_DOMAIN \in Present

\* ----------------------------------------------------- requester: claims

\* The steps of startRequester that follow the registration POST.
AfterRegistration == {"start_write", "start_down", "start_up", "start_route"}

\* The steps of startRequester.
InStart == {"start_probe", "start_keys", "start_register"} \cup AfterRegistration

\* The providers of the calls of `kind` in a task's log.
Logged(t, kind) == {tasks[t].log[i][2] : i \in {k \in 1 .. Len(tasks[t].log) : tasks[t].log[k][1] = kind}}

\* How often a task's log holds the call <<kind, p>>.
Count(t, kind, p) == Cardinality({i \in 1 .. Len(tasks[t].log) : tasks[t].log[i] = <<kind, p>>})

\* C6: a start writes the tunnel config and brings the interface down and up
\* only with a register response in hand; a registration that fails (curl
\* error, body that is not JSON) or returns another body ends the process at
\* the registration step, before any interface-up of that start.
C6_UpOnlyAfterRegistered ==
  \A t \in TaskIds :
    /\ tasks[t].pc \in AfterRegistration => tasks[t].reg = "ok"
    /\ tasks[t].reg \notin {"none", "ok"} =>
         /\ exitCode = EXIT_START_FAILED
         /\ tasks[t].pc = "start_register"
         /\ tasks[t].failed = "register"

\* C6 witness: the interface of a provider has been brought up by a start
\* that holds a register response.
C6_Witness ==
  \E t \in TaskIds :
    /\ tasks[t].pc = "start_route"
    /\ tasks[t].reg = "ok"
    /\ iface[providerURL(tasks[t].cur)] = "up"

\* C7 (as claimed): when updateRequestersFromConfig(newConfig) returns, the
\* active set and the set registered with the watcher are the providers of
\* newConfig, the pass has stopped only providers absent from newConfig, and
\* it has started no provider twice.
C7_ActiveEqualsConfig ==
  \A t \in TaskIds :
    tasks[t].kind = "reconcile" /\ tasks[t].pc = "done" =>
      /\ SeqToSet(activeProviders) = SeqToSet(tasks[t].cfg)
      /\ watched = SeqToSet(tasks[t].cfg)
      /\ Logged(t, "stop") \cap SeqToSet(tasks[t].cfg) = {}
      /\ \A p \in Logged(t, "start") : Count(t, "start", p) = 1

\* C8 (as claimed): when a pass's start is in progress, every provider the
\* pass has stopped has no interface up, no tunnel config file and no
\* refresh loop.
C8_CleanSlate ==
  \A t \in TaskIds :
    tasks[t].kind = "reconcile" /\ tasks[t].pc \in InStart =>
      \A p \in Logged(t, "stop") :
        /\ iface[providerURL(p)] = "down"
        /\ ~confFile[providerURL(p)]
        /\ p \notin refreshIntervals

\* C8 (amended): within a pass no stopRequester begins after a startRequester
\* has begun, and while a start of the pass is in progress every provider
\* absent from the new configuration has been stopped, removed from the
\* active set and deregistered from the watcher.
C8_StopsBeforeStarts ==
  \A t \in TaskIds :
    tasks[t].kind = "reconcile" =>
      /\ \A i, j \in 1 .. Len(tasks[t].log) :
           tasks[t].log[i][1] = "start" /\ tasks[t].log[j][1] = "stop" => j < i
      /\ tasks[t].pc \in InStart \cup {"watch_path"} =>
           /\ SeqToSet(activeProviders) \subseteq SeqToSet(tasks[t].cfg)
           /\ watched \subseteq SeqToSet(tasks[t].cfg)
           /\ Logged(t, "stop") \cap SeqToSet(tasks[t].cfg) = {}

\* C8 witness: a pass that has stopped a provider whose interface stayed up
\* (the failure of config.down() is logged) is starting another one.
C8_Witness ==
  \E t \in TaskIds :
    /\ tasks[t].kind = "reconcile"
    /\ tasks[t].pc \in InStart
    /\ \E p \in Logged(t, "stop") : iface[providerURL(p)] = "up"

\* C9: the restart callback for provider p calls stopRequester and
\* startRequester for p only, alternately and stop first: the stop begins
\* with the event when p is in the current configuration, a start in
\* progress follows its stop, and the callback returns after as many starts
\* as stops.
C9_RestartStopThenStart ==
  \A t \in TaskIds :
    tasks[t].kind = "restart" =>
      LET T == tasks[t] IN
      /\ \A i \in 1 .. Len(T.log) :
           T.log[i] = <<(IF i % 2 = 1 THEN "stop" ELSE "start"), T.trigger>>
      /\ T.trigger \in SeqToSet(T.cfg) => Len(T.log) >= 1
      /\ T.pc \in {"stop_down", "stop_unlink"} => Len(T.log) % 2 = 1
      /\ T.pc \in InStart => Len(T.log) % 2 = 0
      /\ T.pc = "done" => Len(T.log) % 2 = 0
      /\ T.pc = "done" /\ T.trigger \in SeqToSet(T.cfg) => Len(T.log) >= 2

\* C9 witness: the restart callback for a provider has returned, after one
\* stop and one start of it, under a configuration that lists another
\* provider as well.
C9_Witness ==
  \E t \in TaskIds :
    /\ tasks[t].kind = "restart"
    /\ tasks[t].pc = "done"
    /\ tasks[t].log = <<<<"stop", tasks[t].trigger>>, <<"start", tasks[t].trigger>>>>
    /\ SeqToSet(tasks[t].cfg) = Providers

\* C10: a failure of key-pair retrieval, of the registration, of writing the
\* tunnel config or of the interface down or up ends the process with exit
\* code 51 at that step: the start does not return and the provider is not
\* marked active.
C10_StartFailureExits ==
  \A t \in TaskIds :
    tasks[t].failed # "none" =>
      /\ exitCode = EXIT_START_FAILED
      /\ tasks[t].pc = "start_" \o tasks[t].failed
      /\ tasks[t].cur \notin SeqToSet(activeProviders)

\* C10 witness: the process has ended with 51 on a failed interface-up.
C10_Witness ==
  \E t \in TaskIds :
    /\ tasks[t].failed = "up"
    /\ tasks[t].pc = "start_up"
    /\ exitCode = EXIT_START_FAILED

\* ------------------------------------------ requester: claims (C11..C14)

\* C11: a start whose route registration failed (an error body, a failed
\* request, a connection string without userId or signature) goes on as one
\* that succeeded: the process keeps running, the step leaves every tunnel
\* interface and every refresh loop as it was, startRequester returns, and
\* the reconcile pass marks the provider active; and a refresh loop is only
\* ever started by the step of a route registration that succeeded.
C11_RouteFailureNotFatal ==
  /\ [](\A t \in TaskIds :
         tasks[t].route = "failure" =>
           /\ exitCode = 0
           /\ tasks[t].failed = "none"
           /\ tasks[t].kind = "reconcile" =>
                /\ tasks[t].pc = "watch_path"
                /\ tasks[t].cur \in SeqToSet(activeProviders)
           /\ tasks[t].kind = "restart" => tasks[t].pc = "done")
  /\ [][/\ \A t \in TaskIds :
            (tasks[t].pc = "start_route" /\ tasks'[t].route = "failure") =>
              /\ iface' = iface
              /\ confFile' = confFile
              /\ refreshIntervals' = refreshIntervals
              /\ exitCode' = 0
        /\ ~(refreshIntervals' \subseteq refreshIntervals) =>
            \E t \in TaskIds :
              /\ tasks[t].pc = "start_route"
              /\ tasks'[t].route = "success"
              /\ refreshIntervals' = refreshIntervals \cup {tasks[t].cur}]_vars

\* C11 witness: a reconcile pass has come back from the start of a
\* well-formed connection string whose route registration failed: the
\* provider is active, its interface is up, and it has no refresh loop.
C11_Witness ==
  \E t \in TaskIds :
    /\ tasks[t].kind = "reconcile"
    /\ tasks[t].pc = "watch_path"
    /\ tasks[t].route = "failure"
    /\ ~parseProvider(tasks[t].cur).threw
    /\ exitCode = 0
    /\ iface[providerURL(tasks[t].cur)] = "up"
    /\ tasks[t].cur \in SeqToSet(activeProviders)
    /\ tasks[t].cur \notin refreshIntervals

\* C12: waitForProvider returns only after a probe whose output, trimmed,
\* is "ok"; a probe that ended in a command error or printed anything else
\* counts as a failed one and is followed by the sleep; with no retry bound
\* the call never throws, however many probes have failed; with a bound of
\* N it throws after exactly N failed probes and never probes an N+1st
\* time.
C12_ProbeUntilOk ==
  wait.pc # "none" =>
    /\ wait.pc = "returned" =>
         /\ wait.last # CurlError
         /\ trim(wait.last) = <<"o", "k">>
    /\ wait.pc = "sleeping" =>
         /\ wait.retries >= 1
         /\ wait.last = CurlError \/ trim(wait.last) # <<"o", "k">>
    /\ wait.maxRetries < 0 => wait.pc # "thrown"
    /\ wait.pc = "thrown" =>
         /\ wait.maxRetries >= 0
         /\ wait.retries = wait.maxRetries
    /\ wait.maxRetries >= 0 =>
         /\ wait.retries <= wait.maxRetries
         /\ wait.pc = "probing" => wait.retries < wait.maxRetries

\* C12 witness: a call with no retry bound has returned on "ok" after three
\* failed probes.
C12_Witness ==
  /\ wait.maxRetries < 0
  /\ wait.pc = "returned"
  /\ wait.retries = 3
  /\ trim(wait.last) = <<"o", "k">>

\* C13 (as claimed): a start sends the registration POST only after it has
\* asked the provider for its version.
C13_VersionGated ==
  \A t \in TaskIds :
    "/api/register" \in tasks[t].asked => "/router/api/version" \in tasks[t].asked

\* C14 (as claimed): the start of a malformed connection string sends the
\* provider no request and reaches none of the steps that follow the probe.
C14_MalformedFailsFirst ==
  \A t \in TaskIds :
    (tasks[t].cur # NoProvider /\ parseProvider(tasks[t].cur).threw) =>
      /\ tasks[t].asked = {}
      /\ tasks[t].pc \notin InStart \ {"start_probe"}

\* ------------------------------------------ requester: claims (C21..C28)

\* The two route records of a tunnel as claimed, with or without a health
\* check.
ClaimedRoutes(ip, port) ==
  LET https == [ip |-> ip, port |-> port, scheme |-> "https",
                priority |-> ROUTE_PRIORITY, source |-> "tunnel"]
      http  == [ip |-> ip, port |-> 80, scheme |-> "http",
                priority |-> ROUTE_PRIORITY, source |-> "tunnel"]
      check == [path |-> healthCheckPath]
  IN  {<<https, http>>,
       <<[ip |-> ip, port |-> port, scheme |-> "https", priority |-> ROUTE_PRIORITY,
          source |-> "tunnel", healthCheck |-> check],
         [ip |-> ip, port |-> 80, scheme |-> "http", priority |-> ROUTE_PRIORITY,
          source |-> "tunnel", healthCheck |-> check]>>}

\* C21 (as claimed): the body of every route registration POST holds two
\* records, https on the received routePort and http on port 80, both with
\* the received routeIp, the configured priority and source "tunnel".
C21_TwoRouteRecords ==
  lastRoute.result.sent => lastRoute.post.routes \in ClaimedRoutes(lastRoute.ip, lastRoute.port)

\* C22 (as claimed): an answer with a status other than 200 or a body that
\* is not JSON is reported as a failure, a success is a 200 JSON answer
\* without an error, and the failure on a status is told apart from the
\* failure on a body that is not JSON.
C22_FailureOnStatusOrBody ==
  (lastRoute.result.sent /\ lastRoute.answer # NoAnswer) =>
    /\ (lastRoute.answer.status # 200 \/ lastRoute.answer.body = "notJson")
         => ~lastRoute.result.success
    /\ lastRoute.result.success
         => (lastRoute.answer.status = 200 /\ lastRoute.answer.body = "registered")
    /\ \A a, b \in BackendAnswers \ {NoAnswer} :
         (a.status # 200 /\ a.body # "notJson" /\ b.status = 200 /\ b.body = "notJson") =>
           LET ra == routeResult(TRUE, lastRoute.p, curlPost(a))
               rb == routeResult(TRUE, lastRoute.p, curlPost(b))
           IN  (~ra.success /\ ~rb.success) => <<ra.message, ra.error>> # <<rb.message, rb.error>>

\* The fields of the parsed string are non-empty and the first starts with
\* http.
WellFormedFields ==
  /\ parsed.b # "" /\ parsed.u # "" /\ parsed.s # ""
  /\ startsWith(parsed.b, "http")

\* C24 (as claimed): parseProvider returns the three fields a connection
\* string was made of, whenever they are non-empty and the first starts
\* with http.
C24_RoundTrip ==
  (parsed.pc = "parsed" /\ WellFormedFields) =>
    parsed.out = [threw |-> FALSE, backendUrl |-> parsed.b, userId |-> parsed.u,
                  signature |-> parsed.s]

\* C24 (amended): the same, for fields that hold no comma.
C24_RoundTripNoComma ==
  (/\ parsed.pc = "parsed"
   /\ WellFormedFields
   /\ positions(parsed.b, ",") = {}
   /\ positions(parsed.u, ",") = {}
   /\ positions(parsed.s, ",") = {}) =>
    parsed.out = [threw |-> FALSE, backendUrl |-> parsed.b, userId |-> parsed.u,
                  signature |-> parsed.s]

\* C24 witness: "https://p2,bob,sigA" has been parsed into its fields.
C24_Witness ==
  /\ parsed.pc = "parsed"
  /\ parsed.text = "https://p2,bob,sigA"
  /\ parsed.out = [threw |-> FALSE, backendUrl |-> "https://p2", userId |-> "bob",
                   signature |-> "sigA"]

\* C23: a refresh tick, whatever its registration comes back with, leaves
\* every refresh loop in place with the port and ip it was created with,
\* and leaves the tunnels and the process alone, so the loop's next tick can
\* fire; a connection string loses its loop only by a stopRouteRefreshLoop
\* step.
C23_RefreshLoopSurvives ==
  /\ [](lastRoute.by = "tick" =>
          /\ lastRoute.p \in DOMAIN intervals
          /\ intervals[lastRoute.p] = <<lastRoute.port, lastRoute.ip>>
          /\ exitCode = 0)
  /\ [][/\ lastRoute'.by = "tick" =>
            /\ intervals' = intervals
            /\ reqVars' = reqVars
        /\ ~(DOMAIN intervals \subseteq DOMAIN intervals') => ~lastRoute'.called]_vars

\* C23 witness: the tick of a running loop has ended with a failed
\* registration, and the loop is still there.
C23_Witness ==
  /\ lastRoute.by = "tick"
  /\ lastRoute.result.sent
  /\ ~lastRoute.result.success
  /\ lastRoute.p \in DOMAIN intervals

\* C26: a call of updateRequestersFromConfig whose configuration lists
\* exactly the active providers returns without an await, having called
\* neither stopRequester nor startRequester, and leaves the active set, the
\* interfaces, the config files, the refresh loops and the watcher's
\* providers as they were, with the process running.
C26_IdempotentReconcile ==
  [][\A t \in TaskIds :
       (/\ tasks[t].kind = "idle"
        /\ tasks'[t].kind = "reconcile"
        /\ SeqToSet(tasks'[t].cfg) = SeqToSet(activeProviders)) =>
         /\ tasks'[t].pc = "done"
         /\ tasks'[t].log = <<>>
         /\ currentConfig' = tasks'[t].cfg
         /\ activeProviders' = activeProviders
         /\ iface' = iface
         /\ confFile' = confFile
         /\ refreshIntervals' = refreshIntervals
         /\ watched' = watched
         /\ exitCode' = 0]_vars

\* C26 witness: with both providers active, a call whose configuration
\* lists them in the other order has returned without a stop or a start.
C26_Witness ==
  \E t \in TaskIds :
    /\ tasks[t].kind = "reconcile"
    /\ tasks[t].pc = "done"
    /\ tasks[t].log = <<>>
    /\ Len(tasks[t].cfg) = 2
    /\ Len(activeProviders) = 2
    /\ tasks[t].cfg # activeProviders
    /\ SeqToSet(tasks[t].cfg) = SeqToSet(activeProviders)

\* The steps of stopRequester.
InStop == {"stop_down", "stop_unlink"}

\* The step is one of call t, at the await `pc`.
StepOf(t, pc) ==
  /\ tasks[t].pc = pc
  /\ tasks'[t] # tasks[t]
  /\ \A k \in TaskIds \ {t} : tasks'[k] = tasks[k]

\* C27, the order and the failures: a stopRequester call has cancelled the
\* provider's refresh loop when it gets to the interface; the interface-down,
\* failed or not, is followed by the deletion of the config file; the
\* deletion, failed or not, is followed by the return to the caller, with
\* the process running.
C27_StopSteps ==
  \A t \in TaskIds :
    /\ (tasks[t].pc \notin InStop /\ tasks'[t].pc = "stop_down") =>
         tasks'[t].cur \notin refreshIntervals'
    /\ StepOf(t, "stop_down") =>
         /\ tasks'[t].pc = "stop_unlink"
         /\ tasks'[t].cur = tasks[t].cur
         /\ exitCode' = 0
    /\ StepOf(t, "stop_unlink") =>
         /\ tasks'[t].failed = "none"
         /\ exitCode' = 0

\* C27, the return: when a stopRequester call returns, the provider has no
\* refresh loop.
C27_StopReturn ==
  \A t \in TaskIds :
    StepOf(t, "stop_unlink") => tasks[t].cur \notin refreshIntervals'

\* C27 (as claimed): the steps of stopRequester and what holds when it
\* returns.
C27_StopRequester == [][C27_StopSteps /\ C27_StopReturn]_vars

\* The await that follows each await of startRequester when it succeeds; the
\* caller's next await after the last one.
Following(t, pc) ==
  CASE pc = "start_probe"    -> {"start_probe", "start_keys"}
    [] pc = "start_keys"     -> {"start_register"}
    [] pc = "start_register" -> {"start_write"}
    [] pc = "start_write"    -> {"start_down"}
    [] pc = "start_down"     -> {"start_up"}
    [] pc = "start_up"       -> {"start_route"}
    [] pc = "start_route"    -> IF tasks[t].kind = "reconcile" THEN {"watch_path"}
                                ELSE {"done", "stop_down"}

\* C28: the steps of a start follow one another in the order probe, key
\* pair, register, write config, interface down, interface up, route
\* announcement, and a step that fails ends the start where it is; the route
\* announcement is begun by the step that brought the interface up; a
\* provider joins the active set only by the step that ends the start of a
\* reconcile pass for it, and the watcher's providers only by the step of
\* that pass that follows.
C28_StartOrder ==
  [][/\ \A t \in TaskIds, pc \in InStart :
          StepOf(t, pc) =>
            /\ tasks'[t].cur = tasks[t].cur \/ pc = "start_route"
            /\ IF tasks'[t].failed # "none" THEN tasks'[t].pc = pc
               ELSE tasks'[t].pc \in Following(t, pc)
     /\ \A t \in TaskIds :
          (tasks[t].pc # "start_route" /\ tasks'[t].pc = "start_route") =>
            /\ StepOf(t, "start_up")
            /\ iface'[providerURL(tasks[t].cur)] = "up"
     /\ ~(SeqToSet(activeProviders') \subseteq SeqToSet(activeProviders)) =>
          \E t \in TaskIds :
            /\ StepOf(t, "start_route")
            /\ tasks[t].kind = "reconcile"
            /\ tasks[t].asked = {"/api/ping", "/api/register"}
            /\ SeqToSet(activeProviders') = SeqToSet(activeProviders) \cup {tasks[t].cur}
     /\ ~(watched' \subseteq watched) =>
          \E t \in TaskIds :
            /\ StepOf(t, "watch_path")
            /\ tasks[t].cur \in SeqToSet(activeProviders)
            /\ watched' = watched \cup {tasks[t].cur}]_vars

\* C28 witness: a reconcile pass has returned from the one start it had to
\* make: the provider was probed and registered, its interface is up, its
\* route has a refresh loop, and it is active and watched.
C28_Witness ==
  \E t \in TaskIds, p \in Providers :
    /\ tasks[t].kind = "reconcile"
    /\ tasks[t].pc = "done"
    /\ tasks[t].log = <<<<"start", p>>>>
    /\ tasks[t].asked = {"/api/ping", "/api/register"}
    /\ iface[providerURL(p)] = "up"
    /\ p \in refreshIntervals
    /\ p \in SeqToSet(activeProviders)
    /\ p \in watched

\* C25 (as claimed): a reconcile pass whose configuration lists a reachable
\* provider eventually has it active, whether or not the other provider of
\* the configuration can be reached.
C25_IndependentStarts ==
  \A p \in Providers \ {Unreachable} :
    (\E t \in TaskIds : /\ tasks[t].kind = "reconcile"
                        /\ tasks[t].pc # "done"
                        /\ p \in SeqToSet(tasks[t].cfg))
      ~> (p \in SeqToSet(activeProviders))

\* ------------------------------------------- provider: claims (C29, C30)

\* The peer table and the pool as whole registerPeer calls leave them: the
\* leased addresses are the two reserved ones and those of the peers, and no
\* two peers hold the same address.
Settled(pm, leased) ==
  LET present == {n \in Names : pm[n] # NoPeer} IN
    /\ leased = {serverIp, zero} \cup {pm[n].ip : n \in present}
    /\ \A n \in present : pm[n].ip \notin {serverIp, zero}
    /\ \A n, m \in present : n # m => pm[n].ip # pm[m].ip

\* C29: with registrations suspended on the auth backend and name
\* resolutions served in between, every request finds the peer table and the
\* pool as whole registerPeer calls left them; a name that has a record
\* keeps having one; the table and the pool change only by the step in which
\* a handler resumes, and by the whole effect of its registerPeer call; and
\* the address a registration returns is held by no other name.
C29_Linearizable ==
  [][/\ Settled(peerMap, leasedIps) /\ Settled(peerMap', leasedIps')
     /\ \A n \in Names : peerMap[n] # NoPeer => peerMap'[n] # NoPeer
     /\ (peerMap' # peerMap \/ leasedIps' # leasedIps) =>
          \E h \in HandlerIds :
            /\ handlers[h].pc = "auth"
            /\ handlers'[h].pc = "idle"
            /\ lastReg'.called
            /\ LET whole == registerPeer(ProvState(peerMap, leasedIps),
                                         handlers[h].pk, lastReg'.name).st
               IN  peerMap' = whole.peerMap /\ leasedIps' = whole.leasedIps
     /\ (lastReg'.called /\ ~lastReg'.threw) =>
          /\ lastReg'.address = <<Address(peerMap'[lastReg'.name].ip)>>
          /\ \A m \in Names \ {lastReg'.name} :
               peerMap'[m] # NoPeer => peerMap'[m].ip # peerMap'[lastReg'.name].ip]_vars

\* C29 witness: a handler has rotated the key of a name while another
\* handler, asked to register the same name, was waiting for the auth
\* backend.
C29_Witness ==
  \E h \in HandlerIds :
    /\ handlers[h].pc = "auth"
    /\ handlers[h].userId = lastReg.name
    /\ handlers[h].pk # lastReg.pk
    /\ IsRotation
    /\ ~lastReg.threw
    /\ lastPost.status = 200

\* C30: every peer of the configuration file the provider started on has
\* its address leased when the provider has started; as long as it holds its
\* persisted record its address stays leased and no other name holds it; a
\* registration of another name is never given that address; and the
\* persisted name registering with its persisted key gets that address.
C30_PersistedLeased ==
  \A n \in Names :
    persistedPeers[n] # NoPeer =>
      /\ ~lastReg.called => peerMap[n] = persistedPeers[n]
      /\ peerMap[n] = persistedPeers[n] =>
           /\ persistedPeers[n].ip \in leasedIps
           /\ \A m \in Names \ {n} :
                peerMap[m] # NoPeer => peerMap[m].ip # persistedPeers[n].ip
      /\ (lastReg.called /\ lastReg.pre.peerMap[n] = persistedPeers[n]) =>
           /\ lastReg.name # n => lastReg.address # <<Address(persistedPeers[n].ip)>>
           /\ (lastReg.name = n /\ lastReg.pk = persistedPeers[n].publicKey) =>
                /\ ~lastReg.threw
                /\ lastReg.address = <<Address(persistedPeers[n].ip)>>

\* C30 witness: the provider started on a file whose peer holds the lowest
\* allocatable address, and the first registration after the start, of
\* another name, was given a higher one.
C30_Witness ==
  \E n \in Names :
    /\ persistedPeers[n] # NoPeer
    /\ persistedPeers[n].ip = Min(Subnet \ {serverIp, zero})
    /\ lastReg.called
    /\ ~lastReg.threw
    /\ lastReg.name # n
    /\ lastReg.pre.peerMap = persistedPeers
    /\ lastReg.address # <<>>
    /\ lastReg.address[1][1] > persistedPeers[n].ip

\* ------------------------------------------- provider: claims (C31..C33)

\* What precedes the first dot of s: its left-most label.
firstLabel(s) ==
  LET dots == {i \in 1 .. Len(s) : s[i] = "."}
  IN  IF dots = {} THEN s
      ELSE SubSeq(s, 1, (CHOOSE i \in dots : \A j \in dots : i <= j) - 1)

\* The labels in front of the announcement domain of a host under it.
labelsOf(param) ==
  sliceOff(replaceAll(param, "-", "."), Len(announcedDomain) + 1)

\* The asked host is under the announcement domain with several labels in
\* front of it.
SeveralLabels(param) ==
  /\ endsWith(replaceAll(param, "-", "."), <<".">> \o announcedDomain)
  /\ firstLabel(labelsOf(param)) # labelsOf(param)
  /\ firstLabel(labelsOf(param)) # <<>>

\* C31 (as claimed): a GET /api/get_ip for a host with several labels in
\* front of the announcement domain is answered with the address of the peer
\* named by the left-most of them, 404 when there is no such peer.
C31_LeftMostLabel ==
  (lastGet.called /\ SeveralLabels(lastGet.host)) =>
    LET ip == getIpFromName(peerMap, firstLabel(labelsOf(lastGet.host))) IN
      IF ip = NoIp THEN lastGet.status = 404
      ELSE lastGet.status = 200 /\ lastGet.body = urlOf(ip)

\* The startup found a private key in the file.
KeyFound == boot.before.exists /\ boot.before.privateKey # NoKey

\* C32: once setupWireguardConfig has run, if the file existed with a
\* private key the server keys are that key and the public key derived from
\* it, nothing was written and the file is as it was, peers included, and
\* these are the peers setup then loads; a key was generated and the
\* scaffold written only if no private key was read, and then both were.
C32_ReusesExistingState ==
  boot.pc \in {"config", "loaded"} =>
    /\ KeyFound =>
         /\ boot.serverPrivateKey = boot.before.privateKey
         /\ boot.serverPublicKey = pubkey(boot.before.privateKey)
         /\ ~boot.wrote /\ ~boot.generated
         /\ boot.file = boot.before
         /\ boot.pc = "loaded" => peerMap = boot.before.peers
    /\ (boot.wrote \/ boot.generated) => ~KeyFound
    /\ ~KeyFound =>
         /\ boot.generated /\ boot.wrote
         /\ boot.serverPrivateKey \in GeneratedKeys
         /\ boot.file = scaffold(boot.serverPrivateKey)

\* C32 witness: the provider has started on a file with a private key and a
\* peer, kept the key and the file and loaded the peer.
C32_Witness ==
  /\ boot.pc = "loaded"
  /\ KeyFound
  /\ boot.before.peers # NoPeers
  /\ boot.file = boot.before
  /\ peerMap = boot.before.peers
  /\ boot.serverPrivateKey = boot.before.privateKey

\* C33: between registerPeer calls the leased addresses are exactly the two
\* reserved ones and those of the peers in the table, each held by one
\* peer; a registration that failed for want of a free address has left the
\* table and the pool as they were.
C33_NoLeakedLeases ==
  /\ leasedIps = {zero, serverIp} \cup {peerMap[n].ip : n \in {m \in Names : peerMap[m] # NoPeer}}
  /\ Cardinality(leasedIps) = 2 + Cardinality({n \in Names : peerMap[n] # NoPeer})
  /\ (lastReg.called /\ lastReg.threw) =>
       /\ peerMap = lastReg.pre.peerMap
       /\ leasedIps = lastReg.pre.leasedIps

\* C33 witness: a registration has failed on the exhausted pool, whose
\* addresses are held by two peers, one of them registered since the start.
C33_Witness ==
  /\ lastReg.called
  /\ lastReg.threw
  /\ leasedIps = Subnet
  /\ \E n \in Names :
       /\ peerMap[n] # NoPeer
       /\ persistedPeers[n] = NoPeer
       /\ peerMap[n].publicKey = "pkB"
       /\ \E m \in Names \ {n} : peerMap[m] # NoPeer /\ peerMap[m].publicKey = "pkB"

\* ------------------------------------------ requester: claims (C34..C36)

\* The timers that have not been cleared whose callback refreshes p.
LiveTimers(p) == {h \in BagToSet(timers) : h[1] = p}

\* C34: a connection string has at most one timer that has not been
\* cleared, and has one exactly when it has an entry in the Map, the one
\* the entry stands for: a start on a string that has a loop leaves only the
\* new one, and after stopRouteRefreshLoop or stopAllRouteRefreshLoops the
\* string has no timer left to fire; a refresh tick comes from the one loop
\* of its string.
C34_OneRefreshLoop ==
  /\ \A p \in RouteStrings :
       /\ Cardinality(LiveTimers(p)) <= 1
       /\ \A h \in LiveTimers(p) : CopiesIn(h, timers) = 1
       /\ LiveTimers(p) = IF p \in DOMAIN intervals THEN {handle(intervals, p)} ELSE {}
  /\ lastRoute.by = "tick" =>
       LiveTimers(lastRoute.p) = {<<lastRoute.p, lastRoute.port, lastRoute.ip>>}

\* C34 witness: two connection strings have a loop each, and the last
\* start was made on port 8443.
C34_Witness ==
  /\ lastRoute.by = "start"
  /\ lastRoute.result.success
  /\ lastRoute.port = 8443
  /\ LiveTimers(lastRoute.p) = {<<lastRoute.p, 8443, lastRoute.ip>>}
  /\ \E q \in DOMAIN intervals \ {lastRoute.p} : intervals[q][1] = 443

\* No call is in progress and the process runs.
Quiet == exitCode = 0 /\ \A t \in TaskIds : tasks[t].pc \in {"idle", "done"}

\* C35 (as claimed): when the reconcile pass and the restart callback have
\* both finished, a provider that the configuration does not list has its
\* interface down, no tunnel config file and no refresh loop.
C35_NoTunnelOutlivesRemoval ==
  Quiet =>
    \A p \in Providers \ SeqToSet(currentConfig) :
      /\ iface[providerURL(p)] = "down"
      /\ ~confFile[providerURL(p)]
      /\ p \notin refreshIntervals

\* C36 (as claimed): no two calls in progress are inside startRequester for
\* the same provider string.
C36_OneStartPerProvider ==
  \A t, k \in TaskIds :
    (t # k /\ tasks[t].pc \in InStart /\ tasks[k].pc \in InStart) =>
      tasks[t].cur # tasks[k].cur

====
